---- MODULE Spec2Model ----
(***************************************************************************)
(* Verification model of terminal-sync-vscode: the identity resolver, the  *)
(* command-line classifier and cd-target resolver, the brace expander of   *)
(* the glob tool, the file-data formatters, the listing order of the tree  *)
(* and the table, the terminal output parser, the tree explorer's cache    *)
(* and the extension's directory/listing state machine.                    *)
(* Strings are sequences of one-character strings.                         *)
(***************************************************************************)
EXTENDS Integers, Sequences, FiniteSets, TLC

VARIABLES
    uidNameMap,     \* userGroup: Map<number,string> of user ids
    gidNameMap,     \* userGroup: Map<number,string> of group ids
    extCalls,       \* number of getent executions per <<isGroup, id>>
    lastCall,       \* the last resolveUser/resolveGroup call and what it returned
    nCalls,         \* number of resolve calls made so far
    pc,             \* position of the pure-function harness
    input,          \* the harness's input
    output,         \* the harness's result
    currentWorkingDirectory,  \* extension: the tracked directory
    shouldShowFiles,          \* extension: files are shown only after ls
    lsOptions,                \* extension: the options of the last ls
    explorer,       \* RemoteFileExplorer: currentPath, showFiles, lsOptions
    tableView,      \* LsTableViewProvider: what the webview shows
    tableTasks,     \* updateLsTableView calls suspended in an await
    terminalSent,   \* the texts given to terminal.sendText, in order
    cdAwaitingLs,   \* a cd succeeded and no ls has succeeded since
    lastHandled,    \* what the step just taken handled: a shell event's kind, or none
    fetches,        \* getChildren calls suspended in fetchDirectoryContents
    buffer,         \* TerminalOutputParser: the rolling buffer
    commandHistory, \* TerminalOutputParser: the commands found so far
    currentDirectory,  \* TerminalOutputParser: the last known directory
    returned,       \* the value the last parseData call returned
    received,       \* every chunk given to parseData since the last clear()
    nParsed         \* the number of parseData calls so far

idVars == <<uidNameMap, gidNameMap, extCalls, lastCall, nCalls>>
pureVars == <<pc, input, output>>
extVars == <<currentWorkingDirectory, shouldShowFiles, lsOptions, explorer, tableView,
             tableTasks, terminalSent, cdAwaitingLs, lastHandled, fetches>>
parserVars == <<buffer, commandHistory, currentDirectory, returned, received, nParsed>>
vars == <<idVars, pureVars, extVars, parserVars>>

None == "None"

\* lastCall before any call was made.
NoCall == [isGroup |-> FALSE, id |-> -1, result |-> <<>>, external |-> FALSE]

(***************************************************************************)
(* userGroup resolver                                                      *)
(***************************************************************************)
MaxId == 1
MaxCalls == 3
Ids == 0..MaxId
Names == {<<"r">>, <<"u">>}

Digit == <<"0", "1", "2", "3", "4", "5", "6", "7", "8", "9">>

RECURSIVE NumToString(_)
NumToString(n) ==
    IF n < 10 THEN <<Digit[n + 1]>>
    ELSE NumToString(n \div 10) \o <<Digit[(n % 10) + 1]>>

\* The outcomes of execSync("getent ..."): a line whose first field is a
\* name, a line with an empty first field (or empty output), or a throw
\* (non-zero exit, timeout after 1000 ms).
GetentOutcomes == [kind : {"name"}, name : Names] \cup {[kind |-> "empty"], [kind |-> "throw"]}

\* Registry contents initUserGroupMaps can leave in a map: any partial map
\* (the read of /etc/passwd or /etc/group may fail, leaving it empty).
RegistryMaps == UNION {[D -> Names] : D \in SUBSET Ids}

\* getent without the caching of the numeric fallback.
GetentNoFallbackCache(map, id, outcome) ==
    IF outcome.kind = "name"
    THEN [map |-> [i \in DOMAIN map \cup {id} |-> IF i = id THEN outcome.name ELSE map[i]],
          result |-> outcome.name]
    ELSE [map |-> map, result |-> NumToString(id)]

\* getent(id, isGroup): the new map and the returned name.
Getent(map, id, outcome) ==
    IF outcome.kind = "name"
    THEN [map |-> [i \in DOMAIN map \cup {id} |-> IF i = id THEN outcome.name ELSE map[i]],
          result |-> outcome.name]
    ELSE [map |-> [i \in DOMAIN map \cup {id} |-> IF i = id THEN NumToString(id) ELSE map[i]],
          result |-> NumToString(id)]

IdleId ==
    /\ uidNameMap = <<>>
    /\ gidNameMap = <<>>
    /\ extCalls = <<>>
    /\ lastCall = NoCall
    /\ nCalls = 0

IdlePure ==
    /\ pc = "idle"
    /\ input = None
    /\ output = None

\* The parser before any data: the field initialisers of TerminalOutputParser.
IdleParser ==
    /\ buffer = <<>>
    /\ commandHistory = <<>>
    /\ currentDirectory = <<>>
    /\ returned = <<>>
    /\ received = <<>>
    /\ nParsed = 0

IdleExt ==
    /\ currentWorkingDirectory = <<>>
    /\ shouldShowFiles = FALSE
    /\ lsOptions = <<>>
    /\ explorer = <<>>
    /\ tableView = <<>>
    /\ tableTasks = <<>>
    /\ terminalSent = <<>>
    /\ cdAwaitingLs = FALSE
    /\ lastHandled = <<>>
    /\ fetches = <<>>

InitId ==
    /\ uidNameMap \in RegistryMaps
    /\ gidNameMap \in RegistryMaps
    /\ extCalls = [k \in BOOLEAN \X Ids |-> 0]
    /\ lastCall = NoCall
    /\ nCalls = 0
    /\ IdlePure
    /\ IdleExt
    /\ IdleParser

resolveUser(uid) ==
    /\ nCalls < MaxCalls
    /\ nCalls' = nCalls + 1
    /\ IF uid \in DOMAIN uidNameMap
       THEN /\ lastCall' = [isGroup |-> FALSE, id |-> uid, result |-> uidNameMap[uid], external |-> FALSE]
            /\ UNCHANGED <<uidNameMap, extCalls>>
       ELSE \E outcome \in GetentOutcomes :
              LET r == Getent(uidNameMap, uid, outcome) IN
              /\ uidNameMap' = r.map
              /\ extCalls' = [extCalls EXCEPT ![<<FALSE, uid>>] = @ + 1]
              /\ lastCall' = [isGroup |-> FALSE, id |-> uid, result |-> r.result, external |-> TRUE]
    /\ UNCHANGED <<gidNameMap, pureVars, extVars, parserVars>>

resolveGroup(gid) ==
    /\ nCalls < MaxCalls
    /\ nCalls' = nCalls + 1
    /\ IF gid \in DOMAIN gidNameMap
       THEN /\ lastCall' = [isGroup |-> TRUE, id |-> gid, result |-> gidNameMap[gid], external |-> FALSE]
            /\ UNCHANGED <<gidNameMap, extCalls>>
       ELSE \E outcome \in GetentOutcomes :
              LET r == Getent(gidNameMap, gid, outcome) IN
              /\ gidNameMap' = r.map
              /\ extCalls' = [extCalls EXCEPT ![<<TRUE, gid>>] = @ + 1]
              /\ lastCall' = [isGroup |-> TRUE, id |-> gid, result |-> r.result, external |-> TRUE]
    /\ UNCHANGED <<uidNameMap, pureVars, extVars, parserVars>>

ResolveUserCall == \E uid \in Ids : resolveUser(uid)
ResolveGroupCall == \E gid \in Ids : resolveGroup(gid)

NextId == ResolveUserCall \/ ResolveGroupCall

SpecId == InitId /\ [][NextId]_vars

\* C1: at most one external fallback lookup is ever made per uid and per gid,
\* and once an id is in the cache (registry entry, looked-up name, or the
\* decimal string cached after a failed or timed-out lookup) every later call
\* for it returns that same cached value without an external call, and the
\* cached value never changes.
C1_CachedOnce ==
    /\ [](\A k \in BOOLEAN \X Ids : extCalls[k] <= 1)
    /\ [][ /\ \A id \in DOMAIN uidNameMap :
                /\ id \in DOMAIN uidNameMap'
                /\ uidNameMap'[id] = uidNameMap[id]
                /\ extCalls'[<<FALSE, id>>] = extCalls[<<FALSE, id>>]
                /\ (lastCall' # lastCall /\ ~lastCall'.isGroup /\ lastCall'.id = id)
                      => (lastCall'.result = uidNameMap[id] /\ ~lastCall'.external)
           /\ \A id \in DOMAIN gidNameMap :
                /\ id \in DOMAIN gidNameMap'
                /\ gidNameMap'[id] = gidNameMap[id]
                /\ extCalls'[<<TRUE, id>>] = extCalls[<<TRUE, id>>]
                /\ (lastCall' # lastCall /\ lastCall'.isGroup /\ lastCall'.id = id)
                      => (lastCall'.result = gidNameMap[id] /\ ~lastCall'.external)
         ]_vars

\* A second call for a uid whose lookup failed: answered from the cache with
\* the decimal string, one external call in all.
C1_Witness ==
    /\ nCalls >= 2
    /\ lastCall # NoCall
    /\ ~lastCall.isGroup
    /\ ~lastCall.external
    /\ extCalls[<<FALSE, lastCall.id>>] = 1
    /\ lastCall.result = NumToString(lastCall.id)

(***************************************************************************)
(* Strings                                                                 *)
(***************************************************************************)
IsWs(c) == c \in {" ", "\t"}

StartsWithAt(s, i, w) ==
    /\ i >= 1
    /\ i + Len(w) - 1 <= Len(s)
    /\ SubSeq(s, i, i + Len(w) - 1) = w

StartsWith(s, w) == StartsWithAt(s, 1, w)

Includes(s, c) == \E i \in 1..Len(s) : s[i] = c

RECURSIVE TrimLeft(_)
TrimLeft(s) == IF s # <<>> /\ IsWs(Head(s)) THEN TrimLeft(Tail(s)) ELSE s

RECURSIVE TrimRight(_)
TrimRight(s) ==
    IF s # <<>> /\ IsWs(s[Len(s)]) THEN TrimRight(SubSeq(s, 1, Len(s) - 1)) ELSE s

Trim(s) == TrimRight(TrimLeft(s))

\* s.split(/\s+/) of a trimmed string: the maximal runs of non-whitespace
\* (one empty part for the empty string).
RECURSIVE SplitWsFrom(_, _, _)
SplitWsFrom(s, i, cur) ==
    IF i > Len(s) THEN <<cur>>
    ELSE IF IsWs(s[i])
         THEN IF i > 1 /\ IsWs(s[i - 1])
              THEN SplitWsFrom(s, i + 1, cur)
              ELSE <<cur>> \o SplitWsFrom(s, i + 1, <<>>)
         ELSE SplitWsFrom(s, i + 1, Append(cur, s[i]))

SplitWs(s) == SplitWsFrom(s, 1, <<>>)

RECURSIVE JoinWith(_, _)
JoinWith(parts, sep) ==
    IF parts = <<>> THEN <<>>
    ELSE IF Len(parts) = 1 THEN parts[1]
    ELSE parts[1] \o sep \o JoinWith(Tail(parts), sep)

SeqsUpTo(S, n) == UNION {[1..k -> S] : k \in 0..n}

(***************************************************************************)
(* commandParser: parseLsOptions                                           *)
(***************************************************************************)
MaxLsTokens == 2

Tok_a == <<"-", "a">>
Tok_all == <<"-", "-", "a", "l", "l">>
Tok_A == <<"-", "A">>
Tok_almost_all == <<"-", "-", "a", "l", "m", "o", "s", "t", "-", "a", "l", "l">>
Tok_l == <<"-", "l">>
Tok_r == <<"-", "r">>
Tok_t == <<"-", "t">>
Tok_S == <<"-", "S">>
Tok_U == <<"-", "U">>
Tok_h == <<"-", "h">>
Tok_F == <<"-", "F">>
Tok_St == <<"-", "S", "t">>
Tok_tS == <<"-", "t", "S">>
Tok_Ut == <<"-", "U", "t">>
Tok_la == <<"-", "l", "a">>
Tok_lAht == <<"-", "l", "A", "h", "t">>
Tok_color == <<"-", "-", "c", "o", "l", "o", "r">>
Tok_reverse == <<"-", "-", "r", "e", "v", "e", "r", "s", "e">>
Tok_human_readable == <<"-", "-", "h", "u", "m", "a", "n", "-", "r", "e", "a", "d", "a", "b", "l", "e">>
Tok_classify == <<"-", "-", "c", "l", "a", "s", "s", "i", "f", "y">>
Tok_src == <<"s", "r", "c">>

LsTokens ==
    {Tok_a, Tok_all, Tok_A, Tok_almost_all, Tok_l,
     Tok_r, Tok_t, Tok_S, Tok_U, Tok_h,
     Tok_F, Tok_St, Tok_tS, Tok_Ut, Tok_la,
     Tok_lAht, Tok_color, Tok_reverse, Tok_human_readable, Tok_classify,
     Tok_src}

DefaultLsOptions ==
    [showHidden |-> FALSE, longFormat |-> FALSE, sortBy |-> "name",
     reverseSort |-> FALSE, humanReadable |-> FALSE, classify |-> FALSE,
     almostAll |-> FALSE]

\* The body of the for loop of parseLsOptions for one part.
ApplyLsPart(options, part) ==
    IF ~StartsWith(part, <<"-">>) THEN options
    ELSE
    LET o1 == IF part = Tok_all \/ Includes(part, "a")
              THEN [options EXCEPT !.showHidden = TRUE] ELSE options
        o2 == IF part = Tok_almost_all \/ Includes(part, "A")
              THEN [o1 EXCEPT !.showHidden = TRUE, !.almostAll = TRUE] ELSE o1
        o3 == IF part = Tok_l \/ Includes(part, "l")
              THEN [o2 EXCEPT !.longFormat = TRUE] ELSE o2
        o4 == IF part = Tok_reverse \/ Includes(part, "r")
              THEN [o3 EXCEPT !.reverseSort = TRUE] ELSE o3
        o5 == IF part = Tok_t \/ Includes(part, "t")
              THEN [o4 EXCEPT !.sortBy = "time"] ELSE o4
        o6 == IF part = Tok_S \/ Includes(part, "S")
              THEN [o5 EXCEPT !.sortBy = "size"] ELSE o5
        o7 == IF part = Tok_U \/ Includes(part, "U")
              THEN [o6 EXCEPT !.sortBy = "none"] ELSE o6
        o8 == IF part = Tok_human_readable \/ Includes(part, "h")
              THEN [o7 EXCEPT !.humanReadable = TRUE] ELSE o7
        o9 == IF part = Tok_classify \/ part = Tok_F \/ Includes(part, "F")
              THEN [o8 EXCEPT !.classify = TRUE] ELSE o8
    IN o9

RECURSIVE ApplyLsParts(_, _)
ApplyLsParts(options, parts) ==
    IF parts = <<>> THEN options
    ELSE ApplyLsParts(ApplyLsPart(options, Head(parts)), Tail(parts))

parseLsOptions(command) == ApplyLsParts(DefaultLsOptions, SplitWs(Trim(command)))

\* The command line `ls tok1 tok2 ...`.
LsLine(tokens) == JoinWith(<<<<"l", "s">>>> \o tokens, <<" ">>)

LsInputs == {[tokens |-> t, line |-> LsLine(t)] : t \in SeqsUpTo(LsTokens, MaxLsTokens)}

InitLs ==
    /\ pc = "input"
    /\ input \in LsInputs
    /\ output = DefaultLsOptions
    /\ IdleId
    /\ IdleExt
    /\ IdleParser

ParseLsOptionsCall ==
    /\ pc = "input"
    /\ output' = parseLsOptions(input.line)
    /\ pc' = "done"
    /\ UNCHANGED <<input, idVars, extVars, parserVars>>

NextLs == ParseLsOptionsCall

SpecLs == InitLs /\ [][NextLs]_vars

RemoveAt(s, i) == SubSeq(s, 1, i - 1) \o SubSeq(s, i + 1, Len(s))

\* C4: a token that is exactly -a or --all sets showHidden and nothing else;
\* a token -A or --almost-all sets exactly showHidden and almostAll.
C4_AllSetsOnlyShowHidden ==
    (pc = "done" /\ Len(input.tokens) = 1) =>
        /\ input.tokens[1] \in {Tok_a, Tok_all}
              => output = [DefaultLsOptions EXCEPT !.showHidden = TRUE]
        /\ input.tokens[1] \in {Tok_A, Tok_almost_all}
              => output = [DefaultLsOptions EXCEPT !.showHidden = TRUE, !.almostAll = TRUE]

\* The flags the parser supports.
SupportedLong == {Tok_all, Tok_almost_all, Tok_reverse, Tok_human_readable, Tok_classify}
SupportedShort == {"a", "A", "l", "r", "t", "S", "U", "h", "F"}

IsRecognizedFlag(tok) ==
    \/ tok \in SupportedLong
    \/ /\ Len(tok) >= 2
       /\ tok[1] = "-"
       /\ \A i \in 2..Len(tok) : tok[i] \in SupportedShort

\* C5: an unrecognized flag (a token beginning with `-` that is no supported
\* long alias and is not made of supported short letters, such as --color)
\* changes no field: the result is that of the line without the token.
C5_UnrecognizedIgnored ==
    pc = "done" =>
        \A i \in 1..Len(input.tokens) :
            (StartsWith(input.tokens[i], <<"-">>) /\ ~IsRecognizedFlag(input.tokens[i]))
                => output = parseLsOptions(LsLine(RemoveAt(input.tokens, i)))

\* The sort letters of the single-dash tokens of a line, in line order.
RECURSIVE SortLetters(_)
SortLetters(tokens) ==
    IF tokens = <<>> THEN <<>>
    ELSE LET tok == Head(tokens) IN
         (IF StartsWith(tok, <<"-">>) /\ ~StartsWith(tok, <<"-", "-">>)
          THEN SelectSeq(tok, LAMBDA c : c \in {"t", "S", "U"})
          ELSE <<>>) \o SortLetters(Tail(tokens))

SortKeyOfLetter(c) == IF c = "t" THEN "time" ELSE IF c = "S" THEN "size" ELSE "none"

OnlyShortFlags(tokens) ==
    \A i \in 1..Len(tokens) :
        StartsWith(tokens[i], <<"-">>) => ~StartsWith(tokens[i], <<"-", "-">>)

\* C6: when several of -t, -S, -U occur in a line, in separate tokens or
\* squashed into one, sortBy is the key of the flag that occurs last.
C6_LastSortFlagWins ==
    (pc = "done" /\ OnlyShortFlags(input.tokens) /\ SortLetters(input.tokens) # <<>>) =>
        LET letters == SortLetters(input.tokens) IN
        output.sortBy = SortKeyOfLetter(letters[Len(letters)])


(***************************************************************************)
(* commandParser: isCdCommand, extractCdTarget                             *)
(***************************************************************************)
MaxPieces == 3
MaxTargetLen == 3

W_cd == <<"c", "d">>
W_pushd == <<"p", "u", "s", "h", "d">>
W_cdfoo == <<"c", "d", "f", "o", "o">>
W_andand == <<"&", "&">>
W_semi == <<";">>

\* Index of the first non-whitespace character of s at or after i
\* (Len(s) + 1 when there is none).
RECURSIVE SkipWs(_, _)
SkipWs(s, i) == IF i <= Len(s) /\ IsWs(s[i]) THEN SkipWs(s, i + 1) ELSE i

\* (\s|$) at index i.
WsOrEnd(s, i) == i = Len(s) + 1 \/ (i <= Len(s) /\ IsWs(s[i]))

\* /^pushd\s+/ that also accepts a bare `pushd`.
PushdPatternWsOrEnd(command) == StartsWith(command, W_pushd) /\ WsOrEnd(command, 6)

\* /^pushd\s+/
PushdPattern(command) ==
    StartsWith(command, W_pushd) /\ Len(command) >= 6 /\ IsWs(command[6])

\* /^cd(\s|$)/
CdPattern(command) == StartsWith(command, W_cd) /\ WsOrEnd(command, 3)

\* /&&\s*cd(\s|$)/ and /;\s*cd(\s|$)/, sep being && or ;
ChainedCdPattern(command, sep) ==
    \E i \in 1..Len(command) :
        /\ StartsWithAt(command, i, sep)
        /\ LET q == SkipWs(command, i + Len(sep)) IN
           StartsWithAt(command, q, W_cd) /\ WsOrEnd(command, q + 2)

isCdCommand(command) ==
    \/ CdPattern(command)
    \/ PushdPattern(command)
    \/ ChainedCdPattern(command, W_andand)
    \/ ChainedCdPattern(command, W_semi)

\* The positions right after (?:^|&&|;): 1 for ^, and the index following
\* each && and each ; of the line.
AnchorEnds(s) ==
    {1} \cup {i + 2 : i \in {j \in 1..Len(s) : StartsWithAt(s, j, W_andand)}}
        \cup {i + 1 : i \in {j \in 1..Len(s) : s[j] = ";"}}

\* (?:&&|;|$) at index i.
ChainOrEnd(s, i) ==
    i = Len(s) + 1 \/ StartsWithAt(s, i, W_andand) \/ StartsWithAt(s, i, W_semi)

\* /(?:^|&&|;)\s*cd\s*(?:&&|;|$)/
JustCd(command) ==
    \E p \in AnchorEnds(command) :
        LET q == SkipWs(command, p) IN
        /\ StartsWithAt(command, q, W_cd)
        /\ ChainOrEnd(command, SkipWs(command, q + 2))

\* (?:\s*&&|\s*;|$) at index j.
CdTerminator(s, j) ==
    \/ j = Len(s) + 1
    \/ LET k == SkipWs(s, j) IN
       StartsWithAt(s, k, W_andand) \/ StartsWithAt(s, k, W_semi)

NoMatch == [found |-> FALSE, text |-> <<>>]

\* The rest of the cdMatch pattern from anchor end p:
\* \s*(?:cd|pushd)\s+(.+?)(?:\s*&&|\s*;|$), giving group 1.
CdMatchFrom(s, p) ==
    LET q == SkipWs(s, p)
        e == IF StartsWithAt(s, q, W_cd) THEN q + 2
             ELSE IF StartsWithAt(s, q, W_pushd) THEN q + 5
             ELSE 0
    IN
    IF e = 0 \/ e > Len(s) \/ ~IsWs(s[e]) THEN NoMatch
    ELSE
    LET m == SkipWs(s, e) IN
    IF m <= Len(s)
    THEN \* greedy \s+, then the shortest group after which the terminator matches
         LET k == CHOOSE k \in m..Len(s) :
                     /\ CdTerminator(s, k + 1)
                     /\ \A k2 \in m..(k - 1) : ~CdTerminator(s, k2 + 1)
         IN [found |-> TRUE, text |-> SubSeq(s, m, k)]
    ELSE \* whitespace up to the end: \s+ gives its last character to the group
         IF m - e >= 2 THEN [found |-> TRUE, text |-> <<s[Len(s)]>>] ELSE NoMatch

\* /(?:^|&&|;)\s*(?:cd|pushd)\s+(.+?)(?:\s*&&|\s*;|$)/ : the leftmost match.
CdMatch(command) ==
    LET hits == {p \in AnchorEnds(command) : CdMatchFrom(command, p).found} IN
    IF hits = {} THEN NoMatch
    ELSE CdMatchFrom(command, CHOOSE p \in hits : \A p2 \in hits : p <= p2)

IsQuote(c) == c \in {"\"", "'"}

\* target.replace(/^["']|["']$/g, '')
StripQuotes(t) ==
    LET a == IF t # <<>> /\ IsQuote(t[1]) THEN Tail(t) ELSE t IN
    IF a # <<>> /\ IsQuote(a[Len(a)]) THEN SubSeq(a, 1, Len(a) - 1) ELSE a

\* s.split("/")
RECURSIVE SplitOn(_, _, _)
SplitOn(s, sep, cur) ==
    IF s = <<>> THEN <<cur>>
    ELSE IF Head(s) = sep THEN <<cur>> \o SplitOn(Tail(s), sep, <<>>)
    ELSE SplitOn(Tail(s), sep, Append(cur, Head(s)))

\* Collapse `.`, `..` and empty segments, left to right.
RECURSIVE NormalizeSegs(_, _)
NormalizeSegs(segs, acc) ==
    IF segs = <<>> THEN acc
    ELSE LET g == Head(segs) IN
         IF g = <<>> \/ g = <<".">> THEN NormalizeSegs(Tail(segs), acc)
         ELSE IF g = <<".", ".">>
              THEN NormalizeSegs(Tail(segs),
                                 IF acc = <<>> THEN acc ELSE SubSeq(acc, 1, Len(acc) - 1))
              ELSE NormalizeSegs(Tail(segs), Append(acc, g))

isAbsolute(t) == t # <<>> /\ t[1] = "/"

\* path.resolve(from, to) for an absolute `from` and a relative `to`.
PathResolve(from, to) ==
    <<"/">> \o JoinWith(NormalizeSegs(SplitOn(from \o <<"/">> \o to, "/", <<>>), <<>>), <<"/">>)

\* process.env.HOME || process.env.USERPROFILE (an unset variable is <<>>).
HomeDir(env) == IF env.HOME # <<>> THEN env.HOME ELSE env.USERPROFILE

Null == [found |-> FALSE, path |-> <<>>]
Path(p) == [found |-> TRUE, path |-> p]

\* homeDir || null
HomeOrNull(env) == IF HomeDir(env) # <<>> THEN Path(HomeDir(env)) ELSE Null

IsTilde(target) == target = <<"~">> \/ StartsWith(target, <<"~", "/">>)

\* The `~` expansion step of extractCdTarget.
ExpandTilde(target, env) ==
    IF IsTilde(target) /\ HomeDir(env) # <<>>
    THEN HomeDir(env) \o Tail(target)
    ELSE target

\* The relative-path step of extractCdTarget done for every target.
ResolveAlways(target, workingDirectory) ==
    PathResolve(workingDirectory, target)

\* The relative-path step of extractCdTarget.
ResolveRelative(target, workingDirectory) ==
    IF ~isAbsolute(target) /\ workingDirectory # <<>>
    THEN PathResolve(workingDirectory, target)
    ELSE target

extractCdTarget(command, workingDirectory, env) ==
    IF JustCd(command) THEN HomeOrNull(env)
    ELSE
    LET cdMatch == CdMatch(command) IN
    IF ~cdMatch.found THEN Null
    ELSE
    LET target == StripQuotes(Trim(cdMatch.text)) IN
    IF target = <<"-">> THEN Null
    ELSE Path(ResolveRelative(ExpandTilde(target, env), workingDirectory))

CdPieces == {W_cd, W_pushd, W_cdfoo, W_andand, W_semi, <<" ">>, <<"x">>}
TargetChars == {"a", "/", ".", "-", "~"}

RECURSIVE Concat(_)
Concat(parts) == IF parts = <<>> THEN <<>> ELSE Head(parts) \o Concat(Tail(parts))

Dir_root == <<"/">>
Dir_a == <<"/", "a">>
Dir_ab == <<"/", "a", "/", "b">>
Dir_abc == <<"/", "a", "/", "b", "/", "c">>
Dir_h == <<"/", "h">>
Dir_u == <<"/", "u">>

Envs == [HOME : {<<>>, Dir_h}, USERPROFILE : {<<>>, Dir_u}]

\* Lines assembled from command-line pieces, and lines `cd`, `cd <t>`.
CdInputs ==
    {[line |-> Concat(ps), target |-> <<>>, cwd |-> Dir_a, env |-> [HOME |-> Dir_h, USERPROFILE |-> <<>>]] :
        ps \in SeqsUpTo(CdPieces, MaxPieces)}
    \cup
    {[line |-> IF t = <<>> THEN W_cd ELSE W_cd \o <<" ">> \o t, target |-> t, cwd |-> c, env |-> e] :
        t \in SeqsUpTo(TargetChars, MaxTargetLen), c \in {Dir_root, Dir_ab, Dir_abc}, e \in Envs}

InitCd ==
    /\ pc = "input"
    /\ input \in CdInputs
    /\ output = [isCd |-> FALSE, target |-> Null]
    /\ IdleId
    /\ IdleExt
    /\ IdleParser

IsCdCommandCall ==
    /\ pc = "input"
    /\ output' = [output EXCEPT !.isCd = isCdCommand(input.line)]
    /\ pc' = "classified"
    /\ UNCHANGED <<input, idVars, extVars, parserVars>>

ExtractCdTargetCall ==
    /\ pc = "input"
    /\ output' = [output EXCEPT !.target = extractCdTarget(input.line, input.cwd, input.env)]
    /\ pc' = "extracted"
    /\ UNCHANGED <<input, idVars, extVars, parserVars>>

NextCd == IsCdCommandCall \/ ExtractCdTargetCall

SpecCd == InitCd /\ [][NextCd]_vars

\* The line begins with the word w followed by whitespace or end-of-line.
BeginsWord(line, w) == StartsWith(line, w) /\ WsOrEnd(line, Len(w) + 1)

\* The line contains `&& cd` or `; cd` as a chained segment.
HasChainedCd(line) ==
    \E i \in 1..Len(line) : \E sep \in {W_andand, W_semi} :
        /\ StartsWithAt(line, i, sep)
        /\ BeginsWord(TrimLeft(SubSeq(line, i + Len(sep), Len(line))), W_cd)

\* Every occurrence of `cd` in the line is the prefix of a longer word.
CdOnlyAsWordPrefix(line) ==
    /\ \E i \in 1..Len(line) : StartsWithAt(line, i, W_cd)
    /\ \A i \in 1..Len(line) :
          StartsWithAt(line, i, W_cd) => (i + 2 <= Len(line) /\ line[i + 2] \in {"f", "o", "x"})

\* C7: isCd is true for every line beginning with cd or pushd followed by
\* whitespace or end-of-line (a bare pushd included) and for every line with
\* a chained `&& cd` / `; cd`; it is false where cd is only the prefix of a
\* longer word such as cdfoo.
C7_IsCdPatterns ==
    (pc = "classified" /\ Trim(input.line) = input.line) =>
        /\ (BeginsWord(input.line, W_cd) \/ BeginsWord(input.line, W_pushd)
              \/ HasChainedCd(input.line)) => output.isCd
        /\ (CdOnlyAsWordPrefix(input.line) /\ ~BeginsWord(input.line, W_pushd)) => ~output.isCd

\* Reference resolution of a relative path: cancel a name followed by `..`,
\* drop `.` and empty segments and `..` at the root, until nothing changes.
RECURSIVE RefCollapse(_)
RefCollapse(segs) ==
    IF \E i \in 1..Len(segs) : segs[i] \in {<<>>, <<".">>}
    THEN RefCollapse(SelectSeq(segs, LAMBDA g : g \notin {<<>>, <<".">>}))
    ELSE IF segs # <<>> /\ segs[1] = <<".", ".">>
    THEN RefCollapse(Tail(segs))
    ELSE IF \E i \in 1..(Len(segs) - 1) : segs[i] # <<".", ".">> /\ segs[i + 1] = <<".", ".">>
    THEN LET i == CHOOSE i \in 1..(Len(segs) - 1) :
                     segs[i] # <<".", ".">> /\ segs[i + 1] = <<".", ".">>
         IN RefCollapse(SubSeq(segs, 1, i - 1) \o SubSeq(segs, i + 2, Len(segs)))
    ELSE segs

RefJoin(dir, t) ==
    LET segs == RefCollapse(SplitOn(dir, "/", <<>>) \o SplitOn(t, "/", <<>>)) IN
    IF segs = <<>> THEN <<"/">>
    ELSE Concat([i \in 1..Len(segs) |-> <<"/">> \o segs[i]])

\* The line is `cd` or `cd <t>` with the harness's target t.
IsPlainCdLine ==
    input.line = (IF input.target = <<>> THEN W_cd ELSE W_cd \o <<" ">> \o input.target)

\* C8: on `cd <t>` with an absolute currentDir the resolver agrees with the
\* reference: a relative t gives the normalized join of currentDir and t
\* (`.`/`..` collapsed), an absolute t is returned unchanged, bare `cd` gives
\* the home directory, `cd -` gives None (and `~`, `~/...` expand against the
\* home directory when it is set).
C8_ResolveAgreesWithReference ==
    (pc = "extracted" /\ IsPlainCdLine /\ isAbsolute(input.cwd)) =>
        LET t == input.target
            home == HomeDir(input.env)
        IN
        /\ (t = <<>> /\ home # <<>>) => output.target = Path(home)
        /\ t = <<"-">> => output.target = Null
        /\ isAbsolute(t) => output.target = Path(t)
        /\ (IsTilde(t) /\ home # <<>>) => output.target = Path(home \o Tail(t))
        /\ (t # <<>> /\ t # <<"-">> /\ ~isAbsolute(t) /\ ~IsTilde(t))
              => output.target = Path(RefJoin(input.cwd, t))

\* `cd ..` from /a/b/c resolved to /a/b.
C8_Witness ==
    /\ pc = "extracted"
    /\ input.line = <<"c", "d", " ", ".", ".">>
    /\ input.cwd = Dir_abc
    /\ output.target = Path(Dir_ab)

\* No cd/pushd word stands at the start of the line or after a && or ;.
NoCdPattern(line) ==
    \A p \in AnchorEnds(line) :
        LET rest == TrimLeft(SubSeq(line, p, Len(line))) IN
        \A w \in {W_cd, W_pushd} :
            ~(StartsWith(rest, w) /\ (WsOrEnd(rest, Len(w) + 1) \/ ChainOrEnd(rest, Len(w) + 1)))

\* C9: the resolver returns None when the line holds no cd/pushd pattern,
\* and when the target needs the home directory and none is set: for a bare
\* `cd` and for the targets `~` and `~/...`.
C9_NoneWithoutPatternOrHome ==
    pc = "extracted" =>
        /\ NoCdPattern(input.line) => output.target = Null
        /\ (IsPlainCdLine /\ HomeDir(input.env) = <<>>
              /\ (input.target = <<>> \/ IsTilde(input.target)))
              => output.target = Null


(***************************************************************************)
(* globTool: expandBraces                                                  *)
(***************************************************************************)
MaxGlobParts == 3

\* The characters with codes 65..122, in code order (U+0060 is the grave
\* accent).
CodeChars ==
    <<"A", "B", "C", "D", "E", "F", "G", "H", "I", "J", "K", "L", "M",
      "N", "O", "P", "Q", "R", "S", "T", "U", "V", "W", "X", "Y", "Z",
      "[", "\\", "]", "^", "_", "U+0060",
      "a", "b", "c", "d", "e", "f", "g", "h", "i", "j", "k", "l", "m",
      "n", "o", "p", "q", "r", "s", "t", "u", "v", "w", "x", "y", "z">>

CodeBase == 64

IsLetter(c) ==
    \E i \in 1..Len(CodeChars) : CodeChars[i] = c /\ (i <= 26 \/ i >= 33)

charCodeAt(c) == CodeBase + (CHOOSE i \in 1..Len(CodeChars) : CodeChars[i] = c)
fromCharCode(n) == CodeChars[n - CodeBase]

IsDigit(c) == \E i \in 1..10 : Digit[i] = c
DigitValue(c) == (CHOOSE i \in 1..10 : Digit[i] = c) - 1

RECURSIVE parseInt(_, _)
parseInt(s, acc) ==
    IF s = <<>> THEN acc ELSE parseInt(Tail(s), 10 * acc + DigitValue(Head(s)))

RECURSIVE padStart(_, _, _)
padStart(s, width, fill) == IF Len(s) >= width THEN s ELSE padStart(<<fill>> \o s, width, fill)

AllDigits(s) == s # <<>> /\ \A i \in 1..Len(s) : IsDigit(s[i])

\* /^(\d+)\.\.(\d+)$/ : the index of the first `.` when the body matches, else 0.
NumRangeDot(body) ==
    IF \E d \in 2..(Len(body) - 2) :
          /\ AllDigits(SubSeq(body, 1, d - 1))
          /\ body[d] = "." /\ body[d + 1] = "."
          /\ AllDigits(SubSeq(body, d + 2, Len(body)))
    THEN CHOOSE d \in 2..(Len(body) - 2) :
          /\ AllDigits(SubSeq(body, 1, d - 1))
          /\ body[d] = "." /\ body[d + 1] = "."
          /\ AllDigits(SubSeq(body, d + 2, Len(body)))
    ELSE 0

\* The loop `for (i = start; step > 0 ? i <= end : i >= end; i += step)`.
RangeValues(start, end) ==
    IF start <= end THEN [k \in 1..(end - start + 1) |-> start + k - 1]
    ELSE [k \in 1..(start - end + 1) |-> start - k + 1]

NumRangeExpansions(body, d) ==
    LET a == SubSeq(body, 1, d - 1)
        b == SubSeq(body, d + 2, Len(body))
        width == IF Len(a) >= Len(b) THEN Len(a) ELSE Len(b)
        vals == RangeValues(parseInt(a, 0), parseInt(b, 0))
    IN [k \in 1..Len(vals) |-> padStart(NumToString(vals[k]), width, "0")]

\* /^[a-zA-Z]\.\.[a-zA-Z]$/
IsAlphaRange(body) ==
    /\ Len(body) = 4
    /\ IsLetter(body[1]) /\ body[2] = "." /\ body[3] = "." /\ IsLetter(body[4])

AlphaRangeExpansions(body) ==
    LET vals == RangeValues(charCodeAt(body[1]), charCodeAt(body[4])) IN
    [k \in 1..Len(vals) |-> <<fromCharCode(vals[k])>>]

\* /^(.*?)\{([^}]*)\}(.*)$/ : the first `{` and the first `}` after it
\* (<<0, 0>> when the pattern does not match).
BraceMatch(pattern) ==
    IF \E i \in 1..Len(pattern) :
          pattern[i] = "{" /\ \E j \in (i + 1)..Len(pattern) : pattern[j] = "}"
    THEN LET i == CHOOSE i \in 1..Len(pattern) :
                     pattern[i] = "{" /\ \A i2 \in 1..(i - 1) : pattern[i2] # "{"
             j == CHOOSE j \in (i + 1)..Len(pattern) :
                     pattern[j] = "}" /\ \A j2 \in (i + 1)..(j - 1) : pattern[j2] # "}"
         IN <<i, j>>
    ELSE <<0, 0>>

\* results.add(x) on an insertion-ordered Set.
SetAdd(results, x) ==
    IF \E i \in 1..Len(results) : results[i] = x THEN results ELSE Append(results, x)

RECURSIVE SetAddAll(_, _)
SetAddAll(results, xs) ==
    IF xs = <<>> THEN results ELSE SetAddAll(SetAdd(results, Head(xs)), Tail(xs))

\* The expansions of a brace body: ok is FALSE for an unexpandable body.
BodyExpansions(body) ==
    LET d == NumRangeDot(body) IN
    IF d # 0 THEN [ok |-> TRUE, parts |-> NumRangeExpansions(body, d)]
    ELSE IF IsAlphaRange(body) THEN [ok |-> TRUE, parts |-> AlphaRangeExpansions(body)]
    ELSE IF Includes(body, ",") THEN [ok |-> TRUE, parts |-> SplitOn(body, ",", <<>>)]
    ELSE [ok |-> FALSE, parts |-> <<>>]

RECURSIVE expandBraces(_)
RECURSIVE ExpandParts(_, _, _, _)

\* The nested loops of the cartesian expansion, results being the Set.
ExpandParts(prefix, parts, suffix, results) ==
    IF parts = <<>> THEN results
    ELSE ExpandParts(prefix, Tail(parts), suffix,
                     SetAddAll(results, expandBraces(prefix \o Head(parts) \o suffix)))

expandBraces(pattern) ==
    LET m == BraceMatch(pattern) IN
    IF m = <<0, 0>> THEN <<pattern>>
    ELSE
    LET prefix == SubSeq(pattern, 1, m[1] - 1)
        body == SubSeq(pattern, m[1] + 1, m[2] - 1)
        suffix == SubSeq(pattern, m[2] + 1, Len(pattern))
        expansions == BodyExpansions(body)
    IN
    IF ~expansions.ok THEN <<pattern>>
    ELSE ExpandParts(prefix, expansions.parts, suffix, <<>>)

\* Pattern parts: literal text, or a brace group with the alternatives it
\* stands for (an unrecognized body stands for itself, braces included).
Lit(text) == [text |-> text, alts |-> {text}]
Group(body, alts) == [text |-> <<"{">> \o body \o <<"}">>, alts |-> alts]

GlobParts ==
    {Lit(<<"f">>),
     Lit(<<".">>),
     Group(<<"a", ",", "b">>, {<<"a">>, <<"b">>}),
     Group(<<",", "a">>, {<<>>, <<"a">>}),
     Group(<<"a", ",", "a">>, {<<"a">>}),
     Group(<<"1", ".", ".", "3">>, {<<"1">>, <<"2">>, <<"3">>}),
     Group(<<"0", "2", ".", ".", "1">>, {<<"0", "2">>, <<"0", "1">>}),
     Group(<<"a", ".", ".", "c">>, {<<"a">>, <<"b">>, <<"c">>}),
     Group(<<"c", ".", ".", "b">>, {<<"c">>, <<"b">>}),
     Group(<<"x">>, {<<"{", "x", "}">>})}

GlobInputs ==
    {[parts |-> ps, pattern |-> Concat([i \in 1..Len(ps) |-> ps[i].text])] :
        ps \in SeqsUpTo(GlobParts, MaxGlobParts)}

InitGlob ==
    /\ pc = "input"
    /\ input \in GlobInputs
    /\ output = <<>>
    /\ IdleId
    /\ IdleExt
    /\ IdleParser

ExpandBracesCall ==
    /\ pc = "input"
    /\ output' = expandBraces(input.pattern)
    /\ pc' = "expanded"
    /\ UNCHANGED <<input, idVars, extVars, parserVars>>

NextGlob == ExpandBracesCall

SpecGlob == InitGlob /\ [][NextGlob]_vars

\* The cartesian product of the parts' alternatives, concatenated.
RECURSIVE Product(_)
Product(parts) ==
    IF parts = <<>> THEN {<<>>}
    ELSE {a \o rest : a \in Head(parts).alts, rest \in Product(Tail(parts))}

HasGroup(parts) == \E i \in 1..Len(parts) : Head(parts[i].text) = "{"

\* C10: for a pattern with one or more brace groups the expansions are the
\* cartesian product of the groups' alternatives (numeric range, alphabetic
\* range, comma list with empty alternatives), a group with any other body
\* standing for itself while the other groups are still expanded, and the
\* result holds no duplicates.
C10_CartesianExpansion ==
    (pc = "expanded" /\ HasGroup(input.parts)) =>
        /\ {output[i] : i \in 1..Len(output)} = Product(input.parts)
        /\ Len(output) = Cardinality({output[i] : i \in 1..Len(output)})


(***************************************************************************)
(* extension: tracked directory, listing options, tree explorer, ls table  *)
(***************************************************************************)
MaxSent == 1
MaxTasks == 1

W_ls == <<"l", "s">>
W_pwd == <<"p", "w", "d">>

\* /^\s*pwd\s*$/
isPwdCommand(command) == Trim(command) = W_pwd

\* /^\s*ls(\s|$)/
isLsCommand(command) ==
    LET q == SkipWs(command, 1) IN
    StartsWithAt(command, q, W_ls) /\ WsOrEnd(command, q + 2)

\* The LsOptions of extension.ts: the parser's options without almostAll.
ExtLsOptions(o) ==
    [showHidden |-> o.showHidden, longFormat |-> o.longFormat, sortBy |-> o.sortBy,
     reverseSort |-> o.reverseSort, humanReadable |-> o.humanReadable,
     classify |-> o.classify]

ExtParseLsOptions(command) == ExtLsOptions(parseLsOptions(command))

DefaultExtOptions == ExtLsOptions(DefaultLsOptions)

\* The directories that exist on disk.
ExistingDirs == {Dir_root, Dir_a}

\* fs.existsSync(p) for an absolute p.
existsSync(p) == PathResolve(<<"/">>, p) \in ExistingDirs

\* process.env of the extension host.
ExtEnv == [HOME |-> Dir_a, USERPROFILE |-> <<>>]

Cmd_cd_a == <<"c", "d", " ", "/", "a">>
Cmd_cd_rel == <<"c", "d", " ", "a">>
Cmd_cd_up == <<"c", "d", " ", ".", ".">>
Cmd_cd_dash == <<"c", "d", " ", "-">>
Cmd_cd == <<"c", "d">>
Cmd_ls == <<"l", "s">>
Cmd_ls_la == <<"l", "s", " ", "-", "l", "a">>
Cmd_pwd == <<"p", "w", "d">>
Cmd_ls_cd_rel == <<"l", "s", " ", "&", "&", " ", "c", "d", " ", "a">>
Cmd_pushd_root == <<"p", "u", "s", "h", "d", " ", "/">>
Cmd_make == <<"m", "a", "k", "e">>

ExtCommands ==
    {Cmd_cd_a, Cmd_cd_rel, Cmd_cd_up, Cmd_cd_dash,
     Cmd_cd, Cmd_ls, Cmd_ls_la, Cmd_pwd,
     Cmd_ls_cd_rel, Cmd_pushd_root, Cmd_make}

\* shellIntegration.cwd of the terminal: <<>> when it is not available.
TerminalCwds == {<<>>} \cup ExistingDirs

\* `cd "<path>"` sent without the quotes.
CdTextUnquoted(p) == W_cd \o <<" ">> \o p

\* The text `cd "<path>"`.
CdText(p) == W_cd \o <<" ", "\"">> \o p \o <<"\"">>

NoTable == [kind |-> "unresolved", directory |-> <<>>, readDir |-> <<>>, options |-> DefaultExtOptions]

\* RemoteFileExplorer.refresh
refresh(ex) == [ex EXCEPT !.fileCache = {}]

\* updateCurrentPath without the assignment of this.lsOptions.
updateCurrentPathKeepOptions(ex, newPath, showFiles, options) ==
    refresh([ex EXCEPT !.currentPath = newPath, !.showFiles = showFiles])

\* RemoteFileExplorer.updateCurrentPath
updateCurrentPath(ex, newPath, showFiles, options) ==
    refresh([ex EXCEPT !.currentPath = newPath, !.showFiles = showFiles,
                       !.lsOptions = options])

\* RemoteFileExplorer.revealDirectory
revealDirectory(ex, dirPath) == refresh([ex EXCEPT !.currentPath = dirPath])

\* The cache key of getChildren.
cacheKey(ex, targetPath) ==
    [path |-> targetPath, showFiles |-> ex.showFiles, lsOptions |-> ex.lsOptions]

\* this.fileCache.has(cacheKey)
Cached(ex, key) == \E e \in ex.fileCache : e.key = key

\* What determines the items fetchDirectoryContents(dirPath) returns besides
\* the directory's contents: this.lsOptions (hidden filter, sort, long
\* format) and this.currentPath (header and isCurrent), both read after the
\* awaits.
FetchedItems(ex, dirPath) ==
    [path |-> dirPath, lsOptions |-> ex.lsOptions, header |-> dirPath = ex.currentPath]

\* this.fileCache.set(cacheKey, items); overtaken records that refresh() ran
\* between the call of getChildren and this store.
StoreItems(ex, key, items, overtaken) ==
    [ex EXCEPT !.fileCache = {e \in @ : e.key # key}
                              \cup {[key |-> key, items |-> items, overtaken |-> overtaken]}]

\* RemoteFileExplorer.getChildren: the header rows are returned without a
\* fetch, a cached listing is returned as it is, anything else is fetched
\* and cached.
getChildren(ex, element) ==
    LET targetPath == IF element # <<>> THEN element ELSE ex.currentPath IN
    IF targetPath = <<>> THEN ex
    ELSE IF element = <<>> /\ ~ex.showFiles THEN ex
    ELSE IF Cached(ex, cacheKey(ex, targetPath)) THEN ex
    ELSE StoreItems(ex, cacheKey(ex, targetPath), FetchedItems(ex, targetPath), FALSE)

\* LsTableViewProvider.clearTable
clearTable(tv, directory) ==
    IF tv.kind = "unresolved" THEN tv
    ELSE [kind |-> "waiting", directory |-> directory, readDir |-> <<>>,
          options |-> DefaultExtOptions]

\* LsTableViewProvider.updateTable; readDir is the directory whose entries
\* were read into the files shown.
updateTable(tv, directory, readDir, options) ==
    IF tv.kind = "unresolved" THEN tv
    ELSE [kind |-> "table", directory |-> directory, readDir |-> readDir, options |-> options]

\* The tracked state the event handler works on.
ExtState ==
    [cwd |-> currentWorkingDirectory, show |-> shouldShowFiles, opts |-> lsOptions,
     explorer |-> explorer, table |-> tableView, tasks |-> tableTasks]

\* syncFromTerminal(terminal, showFiles)
syncFromTerminal(st, termCwd, showFiles) ==
    IF termCwd # <<>>
    THEN [st EXCEPT !.cwd = termCwd,
                    !.show = showFiles,
                    !.explorer = updateCurrentPath(@, termCwd, showFiles, st.opts)]
    ELSE [st EXCEPT !.explorer = refresh(@)]

\* What the handler computes from a command line alone, for each line of
\* ExtCommands: commandLine.value.trim(), isCdCommand, isLsCommand,
\* isPwdCommand and parseLsOptions of it.
CommandFacts ==
    [c \in ExtCommands |->
        LET command == Trim(c) IN
        [isCd |-> isCdCommand(command), isLs |-> isLsCommand(command),
         isPwd |-> isPwdCommand(command), options |-> ExtParseLsOptions(command)]]

\* extractCdTarget(command) of extension.ts for each line of ExtCommands and
\* each value of the global currentWorkingDirectory.
CdTargets ==
    [c \in ExtCommands, d \in ExistingDirs |-> extractCdTarget(Trim(c), d, ExtEnv)]

\* The cd block without the call of syncFromTerminal in its else branch.
CdBranchWithoutSync(st, command, exitCode, termCwd) ==
    IF ~CommandFacts[command].isCd \/ exitCode # 0 THEN st
    ELSE
    LET targetDir == CdTargets[command, st.cwd] IN
    IF targetDir.found /\ targetDir.path # <<>> /\ existsSync(targetDir.path)
    THEN [st EXCEPT !.cwd = targetDir.path,
                    !.show = FALSE,
                    !.explorer = updateCurrentPath(@, targetDir.path, FALSE, st.opts),
                    !.table = clearTable(@, targetDir.path)]
    ELSE st

\* The `if (isCdCommand(command))` block of the shell-execution handler.
CdBranch(st, command, exitCode, termCwd) ==
    IF ~CommandFacts[command].isCd \/ exitCode # 0 THEN st
    ELSE
    LET targetDir == CdTargets[command, st.cwd] IN
    IF targetDir.found /\ targetDir.path # <<>> /\ existsSync(targetDir.path)
    THEN [st EXCEPT !.cwd = targetDir.path,
                    !.show = FALSE,
                    !.explorer = updateCurrentPath(@, targetDir.path, FALSE, st.opts),
                    !.table = clearTable(@, targetDir.path)]
    ELSE syncFromTerminal(st, termCwd, FALSE)

\* The ls block without the test of the exit code.
LsBranchAnyExit(st, command, exitCode) ==
    IF ~CommandFacts[command].isLs THEN st
    ELSE
    LET parsedOptions == CommandFacts[command].options IN
    [st EXCEPT !.opts = parsedOptions,
               !.show = TRUE,
               !.explorer = updateCurrentPath(@, st.cwd, TRUE, parsedOptions),
               !.tasks = Append(@, [dir |-> st.cwd, options |-> parsedOptions])]

\* The `if (isLsCommand(command))` block up to the first await of
\* updateLsTableView: readdir(currentWorkingDirectory) is in flight.
LsBranch(st, command, exitCode) ==
    IF ~CommandFacts[command].isLs \/ exitCode # 0 THEN st
    ELSE
    LET parsedOptions == CommandFacts[command].options IN
    [st EXCEPT !.opts = parsedOptions,
               !.show = TRUE,
               !.explorer = updateCurrentPath(@, st.cwd, TRUE, parsedOptions),
               !.tasks = Append(@, [dir |-> st.cwd, options |-> parsedOptions])]

\* The `if (isPwdCommand(command))` block.
PwdBranch(st, command, termCwd) ==
    IF CommandFacts[command].isPwd THEN syncFromTerminal(st, termCwd, st.show) ELSE st

HandlerResult(st, command, exitCode, termCwd) ==
    PwdBranch(LsBranch(CdBranch(st, command, exitCode, termCwd), command, exitCode),
              command, termCwd)

InitialExplorer(dir) ==
    updateCurrentPath([currentPath |-> <<>>, showFiles |-> FALSE,
                       lsOptions |-> DefaultExtOptions, fileCache |-> {}],
                      dir, FALSE, DefaultExtOptions)

\* The step just taken was not a run of the shell-execution handler.
NoEvent == [kind |-> "none", termCwd |-> <<>>]

\* activate(): initialDir is the workspace folder, else HOME.
InitExt ==
    /\ currentWorkingDirectory \in {Dir_root, Dir_a}
    /\ shouldShowFiles = FALSE
    /\ lsOptions = DefaultExtOptions
    /\ explorer = InitialExplorer(currentWorkingDirectory)
    /\ tableView = NoTable
    /\ tableTasks = <<>>
    /\ terminalSent = <<>>
    /\ cdAwaitingLs = FALSE
    /\ lastHandled = NoEvent
    /\ fetches = <<>>
    /\ IdleId
    /\ IdlePure
    /\ IdleParser

\* A successful cd whose target extractCdTarget cannot give (null) or which
\* does not exist on disk.
UnresolvedCd(command, workingDirectory) ==
    LET targetDir == CdTargets[command, workingDirectory] IN
    ~(targetDir.found /\ targetDir.path # <<>> /\ existsSync(targetDir.path))

\* What the handler met: a successful cd it could not resolve (with the
\* terminal's cwd), a failed cd or ls, or anything else.
EventKind(workingDirectory, command, exitCode, termCwd) ==
    IF CommandFacts[command].isCd /\ exitCode = 0 /\ UnresolvedCd(command, workingDirectory)
    THEN [kind |-> "cdUnresolved", termCwd |-> termCwd]
    ELSE IF (CommandFacts[command].isCd \/ CommandFacts[command].isLs)
            /\ ~CommandFacts[command].isPwd /\ exitCode # 0
    THEN [kind |-> "failed", termCwd |-> <<>>]
    ELSE [kind |-> "other", termCwd |-> <<>>]

\* onDidEndTerminalShellExecution for one event, up to its first await.
HandleEvent(command, exitCode, termCwd) ==
        \E r \in {HandlerResult(ExtState, command, exitCode, termCwd)} :
        /\ Len(r.tasks) <= MaxTasks
        /\ lastHandled' = EventKind(currentWorkingDirectory, command, exitCode, termCwd)
        /\ currentWorkingDirectory' = r.cwd
        /\ shouldShowFiles' = r.show
        /\ lsOptions' = r.opts
        /\ explorer' = r.explorer
        /\ tableView' = r.table
        /\ tableTasks' = r.tasks
        /\ cdAwaitingLs' =
              IF CommandFacts[command].isLs /\ exitCode = 0 THEN FALSE
              ELSE IF CommandFacts[command].isCd /\ exitCode = 0 THEN TRUE
              ELSE cdAwaitingLs
        /\ UNCHANGED <<terminalSent, fetches, idVars, pureVars, parserVars>>

\* onDidEndTerminalShellExecution
ShellExecutionEnd ==
    \E command \in ExtCommands, exitCode \in {0, 1}, termCwd \in TerminalCwds :
        HandleEvent(command, exitCode, termCwd)

\* updateLsTableView resumes after its awaits: the table is updated with the
\* globals as they are now, or readdir failed and nothing is shown.
UpdateLsTableViewResume ==
    \E i \in 1..Len(tableTasks), ok \in BOOLEAN :
        /\ tableView' = IF ok
                        THEN updateTable(tableView, currentWorkingDirectory,
                                         tableTasks[i].dir, lsOptions)
                        ELSE tableView
        /\ tableTasks' = RemoveAt(tableTasks, i)
        /\ lastHandled' = NoEvent
        /\ UNCHANGED <<currentWorkingDirectory, shouldShowFiles, lsOptions, explorer,
                       terminalSent, cdAwaitingLs, fetches,
                       idVars, pureVars, parserVars>>

\* LsTableViewProvider.resolveWebviewView
ResolveWebviewView ==
    /\ tableView.kind = "unresolved"
    /\ tableView' = [NoTable EXCEPT !.kind = "initial"]
    /\ lastHandled' = NoEvent
    /\ UNCHANGED <<currentWorkingDirectory, shouldShowFiles, lsOptions, explorer, tableTasks,
                   terminalSent, cdAwaitingLs, fetches,
                       idVars, pureVars, parserVars>>

\* terminal-file-explorer.refresh
RefreshCommand ==
    /\ explorer' = refresh(explorer)
    /\ lastHandled' = NoEvent
    /\ UNCHANGED <<currentWorkingDirectory, shouldShowFiles, lsOptions, tableView,
                   tableTasks, terminalSent, cdAwaitingLs, fetches,
                       idVars, pureVars, parserVars>>

\* terminal-file-explorer.revealCurrentDirectory
RevealCommand ==
    /\ explorer' = IF currentWorkingDirectory # <<>>
                   THEN revealDirectory(explorer, currentWorkingDirectory)
                   ELSE explorer
    /\ lastHandled' = NoEvent
    /\ UNCHANGED <<currentWorkingDirectory, shouldShowFiles, lsOptions, tableView, tableTasks,
                   terminalSent, cdAwaitingLs, fetches,
                       idVars, pureVars, parserVars>>

DirNames == {<<"a">>}

\* The names of the directories in directory d.
ChildDirNames(d) ==
    IF d = <<>> THEN {} ELSE {n \in DirNames : PathResolve(d, n) \in ExistingDirs}

\* The directory rows the tree can hold: the directories below currentPath.
DirectoryRows(ex) ==
    {d \in ExistingDirs : d # ex.currentPath /\ StartsWith(d, ex.currentPath)}

\* The tree view asks for the rows under the root or under a directory row.
GetChildren ==
    \E element \in {<<>>} \cup DirectoryRows(explorer) :
        /\ explorer' = getChildren(explorer, element)
        /\ lastHandled' = NoEvent
        /\ UNCHANGED <<currentWorkingDirectory, shouldShowFiles, lsOptions, tableView,
                       tableTasks, terminalSent, cdAwaitingLs, fetches,
                       idVars, pureVars, parserVars>>

\* terminal-file-explorer.changeDirectory, run by a click on a tree row (a
\* directory row, or a file or header row) or from the palette with no item.
ChangeDirectoryCommand ==
    \E itemType \in {"directory", "other"} :
    \E fullPath \in IF itemType = "directory" THEN DirectoryRows(explorer) ELSE {<<>>} :
        /\ itemType = "directory" => explorer.showFiles
        /\ Len(terminalSent) < MaxSent
        /\ terminalSent' = IF itemType = "directory"
                           THEN Append(terminalSent, CdText(fullPath))
                           ELSE terminalSent
        /\ lastHandled' = NoEvent
        /\ UNCHANGED <<currentWorkingDirectory, shouldShowFiles, lsOptions, explorer, tableView,
                       tableTasks, cdAwaitingLs, fetches,
                       idVars, pureVars, parserVars>>

\* terminal-file-explorer.getCurrentDirectory
GetCurrentDirectoryCommand ==
    \E activeTerminal \in BOOLEAN :
        /\ Len(terminalSent) < MaxSent
        /\ terminalSent' = IF activeTerminal THEN Append(terminalSent, W_pwd) ELSE terminalSent
        /\ lastHandled' = NoEvent
        /\ UNCHANGED <<currentWorkingDirectory, shouldShowFiles, lsOptions, explorer, tableView,
                       tableTasks, cdAwaitingLs, fetches,
                       idVars, pureVars, parserVars>>

\* webview.onDidReceiveMessage: a click on a table row, whose path the
\* table built as path.join(directory, name).
WebviewMessage ==
    \E messageCommand \in {"changeDirectory", "openFile"} :
    \E name \in IF messageCommand = "changeDirectory"
                THEN ChildDirNames(tableView.readDir) ELSE {<<"f">>} :
        /\ tableView.kind = "table"
        /\ Len(terminalSent) < MaxSent
        /\ terminalSent' = IF messageCommand = "changeDirectory"
                           THEN Append(terminalSent, CdText(PathResolve(tableView.directory, name)))
                           ELSE terminalSent
        /\ lastHandled' = NoEvent
        /\ UNCHANGED <<currentWorkingDirectory, shouldShowFiles, lsOptions, explorer, tableView,
                       tableTasks, cdAwaitingLs, fetches,
                       idVars, pureVars, parserVars>>

NextExt ==
    \/ ShellExecutionEnd
    \/ UpdateLsTableViewResume
    \/ ResolveWebviewView
    \/ RefreshCommand
    \/ RevealCommand
    \/ GetChildren
    \/ ChangeDirectoryCommand
    \/ GetCurrentDirectoryCommand
    \/ WebviewMessage

SpecExt == InitExt /\ [][NextExt]_vars

\* C2 as stated: after any sequence of events the system has sent no text
\* or command to the terminal.
C2_NothingSentToTerminal == terminalSent = <<>>

\* The text cd "<d>", written out.
QuotedCd(d) == <<"c", "d", " ", "\"">> \o d \o <<"\"">>

\* C2 amended: text reaches the terminal only from changeDirectory (a click
\* on a directory in the tree or in the table) and from getCurrentDirectory,
\* and it is exactly `cd "<path>"` of the clicked directory or `pwd`; the
\* shell-execution handler, the table update, refresh and reveal send
\* nothing.
C2_OnlyClicksSendText ==
    [][ terminalSent' # terminalSent =>
          \/ /\ ChangeDirectoryCommand \/ WebviewMessage
             /\ \E d \in ExistingDirs, n \in DirNames :
                   terminalSent' = Append(terminalSent, QuotedCd(PathResolve(d, n)))
          \/ /\ GetCurrentDirectoryCommand
             /\ terminalSent' = Append(terminalSent, <<"p", "w", "d">>)
      ]_vars

\* A click on a directory sent its cd command to the terminal.
C2_Witness ==
    /\ terminalSent # <<>>
    /\ \E d \in ExistingDirs : QuotedCd(d) = terminalSent[Len(terminalSent)]

\* C3: after a cd line handled with exit code 0, resolvable or not, with or
\* without a shell-integration cwd, shouldShowFiles and the explorer's
\* showFiles are false, and stay false until an ls with exit code 0.
C3_NoFilesAfterCdUntilLs ==
    cdAwaitingLs => (~shouldShowFiles /\ ~explorer.showFiles)


(***************************************************************************)
(* fileData: detectFileType, buildFileDataSync, classifyFile, formatMode   *)
(***************************************************************************)
S_IFIFO == 4096
S_IFCHR == 8192
S_IFDIR == 16384
S_IFBLK == 24576
S_IFREG == 32768
S_IFLNK == 40960
S_IFSOCK == 49152
S_IFMT == 61440

\* a & b on non-negative integers
RECURSIVE BitAnd(_, _)
BitAnd(a, b) ==
    IF a = 0 \/ b = 0 THEN 0
    ELSE (a % 2) * (b % 2) + 2 * BitAnd(a \div 2, b \div 2)

\* detectFileType(stats)
detectFileType(stats) ==
    LET mode == BitAnd(stats.mode, S_IFMT) IN
    [isRegularFile |-> mode = S_IFREG,
     isDirectory |-> mode = S_IFDIR,
     isSymlink |-> mode = S_IFLNK,
     isFIFO |-> mode = S_IFIFO,
     isSocket |-> mode = S_IFSOCK,
     isCharacterDevice |-> mode = S_IFCHR,
     isBlockDevice |-> mode = S_IFBLK]

\* fileTypeChar(flags)
fileTypeChar(flags) ==
    IF flags.isDirectory THEN "d"
    ELSE IF flags.isSymlink THEN "l"
    ELSE IF flags.isFIFO THEN "p"
    ELSE IF flags.isSocket THEN "s"
    ELSE IF flags.isCharacterDevice THEN "c"
    ELSE IF flags.isBlockDevice THEN "b"
    ELSE "-"

\* The masks of the nine entries of `bits`, and the letter of each.
PermMasks == <<256, 128, 64, 32, 16, 8, 4, 2, 1>>
PermLetters == <<"r", "w", "x", "r", "w", "x", "r", "w", "x">>

\* permissionsFromModeBits with the group-execute entry testing 0o001.
permissionsGroupExecFromOther(mode) ==
    [i \in 1..9 |->
        IF BitAnd(mode, IF i = 6 THEN 1 ELSE PermMasks[i]) # 0 THEN PermLetters[i] ELSE "-"]

\* permissionsFromModeBits(mode)
permissionsFromModeBits(mode) ==
    [i \in 1..9 |-> IF BitAnd(mode, PermMasks[i]) # 0 THEN PermLetters[i] ELSE "-"]

\* formatMode(file)
formatMode(file) == <<fileTypeChar(file)>> \o permissionsFromModeBits(file.stats.mode)

\* classifyFile giving "*" to anything with an execute bit.
classifyFileAnyExecutable(file) ==
    IF file.isDirectory THEN "/"
    ELSE IF file.isSymlink THEN "@"
    ELSE IF file.isSocket THEN "="
    ELSE IF file.isFIFO THEN "|"
    ELSE IF BitAnd(file.stats.mode, 73) # 0 THEN "*"
    ELSE ""

\* classifyFile(file)
classifyFile(file) ==
    IF file.isDirectory THEN "/"
    ELSE IF file.isSymlink THEN "@"
    ELSE IF file.isSocket THEN "="
    ELSE IF file.isFIFO THEN "|"
    ELSE IF file.isRegularFile /\ BitAnd(file.stats.mode, 73) # 0 THEN "*"
    ELSE ""

\* buildFileDataSync: the fields computed from stats.mode.
buildFileDataSync(stats) ==
    LET typeFlags == detectFileType(stats)
        fileData == [stats |-> stats,
                     isRegularFile |-> typeFlags.isRegularFile,
                     isDirectory |-> typeFlags.isDirectory,
                     isSymlink |-> typeFlags.isSymlink,
                     isFIFO |-> typeFlags.isFIFO,
                     isSocket |-> typeFlags.isSocket,
                     isCharacterDevice |-> typeFlags.isCharacterDevice,
                     isBlockDevice |-> typeFlags.isBlockDevice]
    IN  [mode |-> formatMode(fileData), classify |-> classifyFile(fileData)] @@ fileData

\* The mode words lstat can give: every value of the four type bits, the
\* set-uid bit clear or set, every value of the nine permission bits.
ModeWords == {t * 4096 + s * 2048 + p : t \in 0..15, s \in 0..1, p \in 0..511}

NoFileData == buildFileDataSync([mode |-> 0])

InitFile ==
    /\ pc = "stat"
    /\ input \in [mode : ModeWords]
    /\ output = NoFileData
    /\ IdleId
    /\ IdleExt
    /\ IdleParser

BuildFileDataSyncCall ==
    /\ pc = "stat"
    /\ output' = buildFileDataSync(input)
    /\ pc' = "built"
    /\ UNCHANGED <<input, idVars, extVars, parserVars>>

NextFile == BuildFileDataSyncCall

SpecFile == InitFile /\ [][NextFile]_vars

\* The bits read back from nine permission characters: r, w or x is a set
\* bit, `-` a clear bit.
RECURSIVE BitsOfPermissions(_)
BitsOfPermissions(chars) ==
    IF chars = <<>> THEN 0
    ELSE 2 * BitsOfPermissions(SubSeq(chars, 1, Len(chars) - 1))
         + (IF chars[Len(chars)] \in {"r", "w", "x"} THEN 1 ELSE 0)

\* C11: the nine permission characters of every mode read back to
\* mode & 0o777.
C11_PermissionsRoundTrip ==
    pc = "built" =>
        /\ Len(permissionsFromModeBits(input.mode)) = 9
        /\ BitsOfPermissions(permissionsFromModeBits(input.mode)) = input.mode % 512
        /\ SubSeq(output.mode, 2, 10) = permissionsFromModeBits(input.mode)

\* A file with mode 0o100754 was built: rwxr-xr--.
C11_Witness ==
    /\ pc = "built"
    /\ input.mode = 33260
    /\ output.mode = <<"-", "r", "w", "x", "r", "-", "x", "r", "-", "-">>

TypeFlagsTrue(file) ==
    {f \in {"isRegularFile", "isDirectory", "isSymlink", "isFIFO", "isSocket",
            "isCharacterDevice", "isBlockDevice"} : file[f]}

\* C12: for every mode word, unknown type values included, exactly one of
\* the seven type flags of the entry is true.
C12_ExactlyOneTypeFlag ==
    pc = "built" => Cardinality(TypeFlagsTrue(output)) = 1

\* C13: the classify suffix follows from the type flags and the execute
\* bits alone: / directory, @ symlink, = socket, | fifo, * regular file with
\* an execute bit, nothing otherwise.
C13_ClassifyFromTypeAndExec ==
    pc = "built" =>
        LET exec == \E m \in {64, 8, 1} : (input.mode \div m) % 2 = 1 IN
        /\ output.classify = "/" <=> output.isDirectory
        /\ output.classify = "@" <=> output.isSymlink
        /\ output.classify = "=" <=> output.isSocket
        /\ output.classify = "|" <=> output.isFIFO
        /\ output.classify = "*" <=> (output.isRegularFile /\ exec)
        /\ output.classify = "" <=>
              ~(output.isDirectory \/ output.isSymlink \/ output.isSocket \/ output.isFIFO
                \/ (output.isRegularFile /\ exec))

\* An executable character device was built and got no suffix.
C13_Witness ==
    /\ pc = "built"
    /\ output.isCharacterDevice
    /\ input.mode % 2 = 1
    /\ output.classify = ""

(***************************************************************************)
(* formatSize: fileData (globTool.ts) and the listing's table and tree     *)
(***************************************************************************)
MaxBytes == 10240

\* (num / den).toFixed(digits) for digits 0 or 1 and num / den >= 0: the
\* nearest decimal, the larger one on a tie.
toFixed(num, den, digits) ==
    LET scale == IF digits = 1 THEN 10 ELSE 1
        n == (2 * num * scale + den) \div (2 * den)
    IN  IF digits = 1
        THEN NumToString(n \div 10) \o <<".">> \o NumToString(n % 10)
        ELSE NumToString(n)

SizeUnits == <<"B", "K", "M", "G", "T", "P", "E">>

\* The while loop of formatSize: size is bytes / den.
RECURSIVE LargestUnit(_, _, _)
LargestUnit(bytes, den, unitIndex) ==
    IF bytes >= 1024 * den /\ unitIndex < Len(SizeUnits) - 1
    THEN LargestUnit(bytes, den * 1024, unitIndex + 1)
    ELSE [den |-> den, unitIndex |-> unitIndex]

\* formatSize of fileData
formatSize(bytes) ==
    LET u == LargestUnit(bytes, 1, 0)
        rounded == IF bytes >= 10 * u.den \/ bytes % u.den = 0
                   THEN toFixed(bytes, u.den, 0)
                   ELSE toFixed(bytes, u.den, 1)
    IN  IF u.unitIndex = 0 THEN rounded
        ELSE rounded \o <<SizeUnits[u.unitIndex + 1]>>

\* formatSize of webviewTemplates, the same as the table's inline formatSize
\* and, for humanReadable, as RemoteFileItem.formatSize.
webviewFormatSize(bytes, humanReadable) ==
    IF ~humanReadable THEN NumToString(bytes)
    ELSE IF bytes < 1024 THEN NumToString(bytes) \o <<"B">>
    ELSE IF bytes < 1024 * 1024 THEN toFixed(bytes, 1024, 1) \o <<"K">>
    ELSE IF bytes < 1024 * 1024 * 1024 THEN toFixed(bytes, 1024 * 1024, 1) \o <<"M">>
    ELSE toFixed(bytes, 1024 * 1024 * 1024, 1) \o <<"G">>

\* File sizes: every size up to MaxBytes, and quarter-megabyte steps beyond.
SizeInputs == (0..MaxBytes) \cup {k * 262144 : k \in 1..48}

InitSize ==
    /\ pc = "size"
    /\ input \in [bytes : SizeInputs, humanReadable : BOOLEAN]
    /\ output = [fileData |-> <<>>, listing |-> <<>>]
    /\ IdleId
    /\ IdleExt
    /\ IdleParser

FormatSizeCall ==
    /\ pc = "size"
    /\ output' = [fileData |-> formatSize(input.bytes),
                  listing |-> webviewFormatSize(input.bytes, input.humanReadable)]
    /\ pc' = "formatted"
    /\ UNCHANGED <<input, idVars, extVars, parserVars>>

NextSize == FormatSizeCall

SpecSize == InitSize /\ [][NextSize]_vars

\* The exponent of the largest power of 1024 that is at most bytes (0 below
\* 1024).
RECURSIVE UnitOf(_)
UnitOf(bytes) == IF bytes < 1024 THEN 0 ELSE 1 + UnitOf(bytes \div 1024)

\* The text the rule of C14 gives for bytes.
HumanSizeText(bytes) ==
    LET k == UnitOf(bytes)
        den == 1024 ^ k
        digits == IF bytes >= 10 * den \/ bytes % den = 0 THEN 0 ELSE 1
    IN  toFixed(bytes, den, digits) \o (IF k = 0 THEN <<>> ELSE <<SizeUnits[k + 1]>>)

HumanSizeRule(bytes, text) ==
    /\ text = HumanSizeText(bytes)
    /\ bytes = 0 => text = <<"0">>
    /\ bytes = 1023 => text = <<"1", "0", "2", "3">>
    /\ bytes = 1536 => text = <<"1", ".", "5", "K">>
    /\ bytes = 10240 => text = <<"1", "0", "K">>

\* C14: human-readable sizes use base-1024 units, no suffix below 1024,
\* zero decimals when the scaled value is >= 10 or whole and one decimal
\* otherwise, in fileData and in the listing that is rendered.
C14_HumanSize ==
    (pc = "formatted" /\ input.humanReadable) =>
        /\ HumanSizeRule(input.bytes, output.fileData)
        /\ HumanSizeRule(input.bytes, output.listing)

(***************************************************************************)
(* formatDate: fileData (globTool.ts) and the listing's table and tree     *)
(***************************************************************************)
DaySpan == 182
DayMs == 86400000
SixMonthDays == 180
NowDay == 20000

\* now.getTime() - d.getTime(), in whole days and milliseconds:
\* day * DayMs + ms with 0 <= ms < DayMs.
TimeDiff(now, d) ==
    IF now.ms >= d.ms
    THEN [day |-> now.day - d.day, ms |-> now.ms - d.ms]
    ELSE [day |-> now.day - d.day - 1, ms |-> now.ms - d.ms + DayMs]

\* Math.abs(diff) < sixMonthsMs
AbsLessThanSixMonths(diff) ==
    IF diff.day >= 0 THEN diff.day < SixMonthDays
    ELSE (0 - diff.day) < SixMonthDays \/ ((0 - diff.day) = SixMonthDays /\ diff.ms > 0)

\* formatDate of fileData: the layout it chooses.
formatDate(now, d) ==
    IF AbsLessThanSixMonths(TimeDiff(now, d)) THEN "Mon DD HH:MM" ELSE "Mon DD  YYYY"

\* Math.floor(diffMs / (1000 * 60 * 60 * 24))
diffDays(diff) == diff.day

\* formatDate of webviewTemplates, the same as the table's inline formatDate
\* and RemoteFileItem.formatDate: the layout it chooses.
webviewFormatDate(now, d) ==
    IF diffDays(TimeDiff(now, d)) < SixMonthDays THEN "Mon DD HH:MM" ELSE "Mon DD  YYYY"

MsOfDay == {0, 1, 43200000, 86399999}

Timestamps == [day : (NowDay - DaySpan)..(NowDay + DaySpan), ms : MsOfDay]

InitDate ==
    /\ pc = "date"
    /\ input \in [now : [day : {NowDay}, ms : MsOfDay], d : Timestamps]
    /\ output = [fileData |-> "", listing |-> ""]
    /\ IdleId
    /\ IdleExt
    /\ IdleParser

FormatDateCall ==
    /\ pc = "date"
    /\ output' = [fileData |-> formatDate(input.now, input.d),
                  listing |-> webviewFormatDate(input.now, input.d)]
    /\ pc' = "formatted"
    /\ UNCHANGED <<input, idVars, extVars, parserVars>>

NextDate == FormatDateCall

SpecDate == InitDate /\ [][NextDate]_vars

Earlier(a, b) == a.day < b.day \/ (a.day = b.day /\ a.ms < b.ms)

\* |now - t| < 180 days: now is before t + 180 days and t before now + 180 days.
WithinSixMonths(now, t) ==
    /\ Earlier(now, [t EXCEPT !.day = @ + 180])
    /\ Earlier(t, [now EXCEPT !.day = @ + 180])

\* C15: the time-of-day layout is used iff |now - t| < 180 days, for past
\* and future timestamps, in fileData and in the listing that is rendered.
C15_LayoutByAbsoluteAge ==
    pc = "formatted" =>
        /\ output.fileData = "Mon DD HH:MM" <=> WithinSixMonths(input.now, input.d)
        /\ output.listing = "Mon DD HH:MM" <=> WithinSixMonths(input.now, input.d)

(***************************************************************************)
(* The listing: fetchDirectoryContents / sortEntries (tree) and            *)
(* updateLsTableView (table)                                               *)
(***************************************************************************)
MaxEntries == 2

\* The characters of entry names, in the order localeCompare gives them.
Collation == <<".", "a", "b", "c">>

CharRank(c) == CHOOSE i \in 1..Len(Collation) : Collation[i] = c

\* a.localeCompare(b) on names over Collation: negative, zero or positive.
RECURSIVE localeCompare(_, _)
localeCompare(a, b) ==
    IF a = <<>> /\ b = <<>> THEN 0
    ELSE IF a = <<>> THEN -1
    ELSE IF b = <<>> THEN 1
    ELSE IF CharRank(Head(a)) # CharRank(Head(b)) THEN CharRank(Head(a)) - CharRank(Head(b))
    ELSE localeCompare(Tail(a), Tail(b))

\* The sort callback for 'name': directories first, then by name.
CompareName(a, b) ==
    IF a.isDir /\ ~b.isDir THEN -1
    ELSE IF ~a.isDir /\ b.isDir THEN 1
    ELSE localeCompare(a.name, b.name)

\* The sort callback of sortEntries and of updateLsTableView for a sort key,
\* on items that carry name, isDir, mtime and size.
CompareBy(sortBy, a, b) ==
    IF sortBy = "name" THEN CompareName(a, b)
    ELSE IF sortBy = "time" THEN b.mtime - a.mtime
    ELSE IF sortBy = "size" THEN b.size - a.size
    ELSE 0

\* Array.prototype.sort: a stable sort by the callback.
RECURSIVE InsertSorted(_, _, _)
InsertSorted(sorted, x, sortBy) ==
    IF sorted = <<>> THEN <<x>>
    ELSE IF CompareBy(sortBy, Head(sorted), x) > 0 THEN <<x>> \o sorted
    ELSE <<Head(sorted)>> \o InsertSorted(Tail(sorted), x, sortBy)

RECURSIVE ArraySort(_, _)
ArraySort(items, sortBy) ==
    IF items = <<>> THEN <<>>
    ELSE InsertSorted(ArraySort(SubSeq(items, 1, Len(items) - 1), sortBy),
                      items[Len(items)], sortBy)

RECURSIVE ArrayReverse(_)
ArrayReverse(items) ==
    IF items = <<>> THEN <<>> ELSE ArrayReverse(Tail(items)) \o <<Head(items)>>

\* entries.filter(entry => !entry.name.startsWith('.')) unless showHidden
FilterHidden(entries, options) ==
    IF options.showHidden THEN entries
    ELSE SelectSeq(entries, LAMBDA e : Head(e.name) # ".")

\* The stat of sortEntries: mtime and size, 0 when stat throws.
StatOrZero(e) ==
    [name |-> e.name, isDir |-> e.isDir,
     mtime |-> IF e.statOk THEN e.mtime ELSE 0,
     size |-> IF e.statOk THEN e.size ELSE 0]

MapStatOrZero(entries) == [i \in 1..Len(entries) |-> StatOrZero(entries[i])]

NamesOf(items) == [i \in 1..Len(items) |-> items[i].name]

\* RemoteFileExplorer.sortEntries
sortEntries(entries, options) ==
    IF options.sortBy = "none" THEN MapStatOrZero(entries)
    ELSE
    LET sorted == ArraySort(MapStatOrZero(entries), options.sortBy) IN
    IF options.reverseSort THEN ArrayReverse(sorted) ELSE sorted

\* fetchDirectoryContents: the names of the rows, header excluded.
TreeListing(entries, options) ==
    NamesOf(sortEntries(FilterHidden(entries, options), options))

\* updateLsTableView: the stat loop, which skips the entries it cannot stat.
StatOrSkip(entries) == MapStatOrZero(SelectSeq(entries, LAMBDA e : e.statOk))

\* updateLsTableView: the names of the rows.
TableListing(entries, options) ==
    LET fileData == ArraySort(StatOrSkip(FilterHidden(entries, options)), options.sortBy) IN
    NamesOf(IF options.reverseSort THEN ArrayReverse(fileData) ELSE fileData)

EntryNames == {<<"a">>, <<"c">>, <<".", "b">>}

\* What readdir and stat give for one entry: stat fails, or gives one of two
\* (mtime, size) pairs.
DirEntries ==
    [name : EntryNames, isDir : BOOLEAN, statOk : {FALSE}, mtime : {0}, size : {0}]
    \cup [name : EntryNames, isDir : BOOLEAN, statOk : {TRUE}, mtime : {1}, size : {2}]
    \cup [name : EntryNames, isDir : BOOLEAN, statOk : {TRUE}, mtime : {2}, size : {1}]

\* Directory contents in readdir order: entries with distinct names.
Directories ==
    {d \in SeqsUpTo(DirEntries, MaxEntries) :
        \A i, j \in 1..Len(d) : i # j => d[i].name # d[j].name}

ListingOptions ==
    [sortBy : {"name", "time", "size", "none"}, reverseSort : BOOLEAN, showHidden : BOOLEAN]

InitList ==
    /\ pc = "list"
    /\ input \in [entries : Directories, options : ListingOptions]
    /\ output = [tree |-> <<>>, table |-> <<>>]
    /\ IdleId
    /\ IdleExt
    /\ IdleParser

ListCall ==
    /\ pc = "list"
    /\ output' = [tree |-> TreeListing(input.entries, input.options),
                  table |-> TableListing(input.entries, input.options)]
    /\ pc' = "listed"
    /\ UNCHANGED <<input, idVars, extVars, parserVars>>

NextList == ListCall

SpecList == InitList /\ [][NextList]_vars

\* The GNU key of a name: a leading dot is stripped.
DotKey(name) == IF Len(name) > 1 /\ Head(name) = "." THEN Tail(name) ELSE name

\* Byte-wise comparison of two keys: a <= b.
RECURSIVE BytesLeq(_, _)
BytesLeq(a, b) ==
    IF a = <<>> THEN TRUE
    ELSE IF b = <<>> THEN FALSE
    ELSE IF Head(a) # Head(b) THEN CharRank(Head(a)) < CharRank(Head(b))
    ELSE BytesLeq(Tail(a), Tail(b))

OrderedByDotKey(names) ==
    \A i, j \in 1..Len(names) : i < j => BytesLeq(DotKey(names[i]), DotKey(names[j]))

\* C16: sorted by name, the order of a listing depends on the names alone:
\* by the name with a leading dot stripped, with no grouping by type.
C16_NameOrderOnly ==
    (pc = "listed" /\ input.options.sortBy = "name" /\ ~input.options.reverseSort) =>
        /\ OrderedByDotKey(output.tree)
        /\ OrderedByDotKey(output.table)

SeqToSet(s) == {s[i] : i \in 1..Len(s)}

\* C17: sorted by time or size, a listing holds every entry that passed the
\* hidden-file filter, whichever stats failed, the failed ones ordered as
\* if their mtime and size were 0.
C17_StatFailureKept ==
    (pc = "listed" /\ input.options.sortBy \in {"time", "size"}) =>
        LET kept == SeqToSet(NamesOf(FilterHidden(input.entries, input.options)))
            failed == {e.name : e \in {x \in SeqToSet(input.entries) : ~x.statOk}}
            FailedLast(names) ==
                \A i, j \in 1..Len(names) :
                    (i < j /\ ~input.options.reverseSort /\ names[i] \in failed)
                        => names[j] \in failed
        IN  /\ SeqToSet(output.tree) = kept /\ Len(output.tree) = Cardinality(kept)
            /\ SeqToSet(output.table) = kept /\ Len(output.table) = Cardinality(kept)
            /\ FailedLast(output.tree)
            /\ FailedLast(output.table)

\* C18: for every sort key, the listing with reverse set is the reversal of
\* the listing without it.
C18_ReverseInverts ==
    (pc = "listed" /\ input.options.reverseSort) =>
        LET forward == [input.options EXCEPT !.reverseSort = FALSE] IN
        /\ output.tree = ArrayReverse(TreeListing(input.entries, forward))
        /\ output.table = ArrayReverse(TableListing(input.entries, forward))

(***************************************************************************)
(* terminalParser: TerminalOutputParser                                    *)
(***************************************************************************)
MaxChunks == 3
FillerLen == 996
BufferLimit == 1000

\* \s
IsSpace(c) == c \in {" ", "\t", "\n", "\r"}

MinOf(S) == CHOOSE x \in S : \A y \in S : x <= y
MaxOf(S) == CHOOSE x \in S : \A y \in S : x >= y

\* The indices at which the word w occurs in data.
Positions(data, w) ==
    {p \in 1..(Len(data) - Len(w) + 1) :
        data[p] = w[1] /\ SubSeq(data, p, p + Len(w) - 1) = w}

\* The first index at or after i that holds no whitespace (Len + 1 if none).
RECURSIVE SkipSpace(_, _)
SkipSpace(data, i) ==
    IF i <= Len(data) /\ IsSpace(data[i]) THEN SkipSpace(data, i + 1) ELSE i

\* The start of the whitespace run that ends just before index p.
RECURSIVE RunStart(_, _)
RunStart(data, p) ==
    IF p > 1 /\ IsSpace(data[p - 1]) THEN RunStart(data, p - 1) ELSE p

\* (?:^|\n|\$ )\s* ends just before index p.
Anchored(data, p) ==
    LET q == RunStart(data, p) IN
    \/ q = 1
    \/ \E i \in q..(p - 1) : data[i] = "\n"
    \/ q > 1 /\ q < p /\ data[q - 1] = "$" /\ data[q] = " "

\* The end of the longest run from index a of characters outside stops.
RunEnd(data, a, stops) ==
    LET S == {i \in a..Len(data) : data[i] \in stops} IN
    IF S = {} THEN Len(data) ELSE MinOf(S) - 1

ArgStops == {" ", "\t", "\n", "\r", ";", "&", "|"}

\* \s+([^\s;&|]+) from index i: the capture, or no match.
ArgAt(data, i) ==
    LET a == SkipSpace(data, i) IN
    IF a > i /\ a <= Len(data) /\ data[a] \notin ArgStops
    THEN [found |-> TRUE, text |-> SubSeq(data, a, RunEnd(data, a, ArgStops))]
    ELSE NoMatch

\* \s+["']([^"']+)["'] from index i: the capture, or no match.
QuotedArgAt(data, i) ==
    LET a == SkipSpace(data, i)
        e == RunEnd(data, a + 1, {"\"", "'"})
    IN  IF a > i /\ a <= Len(data) /\ IsQuote(data[a]) /\ e >= a + 1 /\ e < Len(data)
        THEN [found |-> TRUE, text |-> SubSeq(data, a + 1, e)]
        ELSE NoMatch

\* The leftmost match of /(?:^|\n|\$ )\s*<word>\s+([^\s;&|]+)/
AnchoredWordMatch(data, word) ==
    LET P == {p \in Positions(data, word) :
                 Anchored(data, p) /\ ArgAt(data, p + Len(word)).found}
    IN  IF P = {} THEN NoMatch ELSE ArgAt(data, MinOf(P) + Len(word))

\* The leftmost match of /(?:^|\n|\$ )\s*cd\s+["']([^"']+)["']/
QuotedCdMatch(data) ==
    LET P == {p \in Positions(data, W_cd) :
                 Anchored(data, p) /\ QuotedArgAt(data, p + 2).found}
    IN  IF P = {} THEN NoMatch ELSE QuotedArgAt(data, MinOf(P) + 2)

\* The leftmost match of /<sep>\s*cd\s+([^\s;&|]+)/ for sep && or ;
ChainedCdMatch(data, sep) ==
    LET CdOf(p) == SkipSpace(data, p + Len(sep))
        P == {p \in Positions(data, sep) :
                 StartsWithAt(data, CdOf(p), W_cd) /\ ArgAt(data, CdOf(p) + 2).found}
    IN  IF P = {} THEN NoMatch ELSE ArgAt(data, CdOf(MinOf(P)) + 2)

\* The matches of `patterns`, in the order of the array.
CdPatternMatches(data) ==
    <<AnchoredWordMatch(data, W_cd), QuotedCdMatch(data), AnchoredWordMatch(data, W_pushd),
      ChainedCdMatch(data, W_andand), ChainedCdMatch(data, W_semi)>>

\* trim()
RECURSIVE TrimSpace(_)
TrimSpace(s) ==
    IF s # <<>> /\ IsSpace(Head(s)) THEN TrimSpace(Tail(s))
    ELSE IF s # <<>> /\ IsSpace(s[Len(s)]) THEN TrimSpace(SubSeq(s, 1, Len(s) - 1))
    ELSE s

W_popd == <<"p", "o", "p", "d">>
W_dotdotslash == <<".", ".", "/">>
HelpTargets == {<<"-", "-", "h", "e", "l", "p">>, <<"-", "h">>}

\* [A-Za-z0-9_]
WordChars ==
    {"A", "B", "C", "D", "E", "F", "G", "H", "I", "J", "K", "L", "M", "N",
     "O", "P", "Q", "R", "S", "T", "U", "V", "W", "X", "Y", "Z", "a", "b",
     "c", "d", "e", "f", "g", "h", "i", "j", "k", "l", "m", "n", "o", "p",
     "q", "r", "s", "t", "u", "v", "w", "x", "y", "z", "0", "1", "2", "3",
     "4", "5", "6", "7", "8", "9", "_"}

\* /(?:^|\n|\$ )\s*popd\b/
PopdMatch(data) ==
    \E p \in Positions(data, W_popd) :
        /\ Anchored(data, p)
        /\ p + 4 > Len(data) \/ data[p + 4] \notin WordChars

\* str.replace(/\.\.\//g, '')
RECURSIVE RemoveDotDotSlash(_)
RemoveDotDotSlash(s) ==
    IF s = <<>> THEN <<>>
    ELSE IF StartsWith(s, W_dotdotslash) THEN RemoveDotDotSlash(SubSeq(s, 4, Len(s)))
    ELSE <<Head(s)>> \o RemoveDotDotSlash(Tail(s))

\* parts.pop(), n times
RECURSIVE PopN(_, _)
PopN(parts, n) ==
    IF n = 0 \/ parts = <<>> THEN parts ELSE PopN(SubSeq(parts, 1, Len(parts) - 1), n - 1)

\* dir.split('/').filter(p => p)
PathParts(dir) == SelectSeq(SplitOn(dir, "/", <<>>), LAMBDA p : p # <<>>)

\* resolveTarget(target), with this.currentDirectory as knownDirectory
resolveTarget(target, knownDirectory) ==
    IF IsTilde(target) \/ target = <<"-">> THEN target
    ELSE IF target = <<".", ".">> THEN
        IF knownDirectory # <<>>
        THEN <<"/">> \o JoinWith(PopN(PathParts(knownDirectory), 1), <<"/">>)
        ELSE target
    ELSE IF StartsWith(target, W_dotdotslash) THEN
        IF knownDirectory # <<>>
        THEN LET upLevels == (Len(target) - Len(RemoveDotDotSlash(target))) \div 3
                 remaining == RemoveDotDotSlash(target)
                 parts == PopN(PathParts(knownDirectory), upLevels)
             IN  <<"/">> \o JoinWith(IF remaining # <<>> THEN Append(parts, remaining)
                                     ELSE parts, <<"/">>)
        ELSE target
    ELSE IF StartsWith(target, <<".", "/">>) THEN
        IF knownDirectory # <<>>
        THEN knownDirectory \o <<"/">> \o SubSeq(target, 3, Len(target))
        ELSE target
    ELSE IF StartsWith(target, <<"/">>) THEN target
    ELSE IF knownDirectory # <<>> THEN knownDirectory \o <<"/">> \o target
    ELSE target

NoCommand == [type |-> "none", command |-> "", arg |-> <<>>, target |-> <<>>]

\* The loop over `patterns` from index i on.
RECURSIVE FirstCdCommand(_, _, _)
FirstCdCommand(matches, i, knownDirectory) ==
    IF i > Len(matches) THEN NoCommand
    ELSE IF matches[i].found /\ TrimSpace(matches[i].text) \notin HelpTargets
    THEN [type |-> "cd", command |-> "cd", arg |-> TrimSpace(matches[i].text),
          target |-> resolveTarget(TrimSpace(matches[i].text), knownDirectory)]
    ELSE FirstCdCommand(matches, i + 1, knownDirectory)

\* parseCdCommand(data): the command, or NoCommand for null.
parseCdCommand(data, knownDirectory) ==
    LET cd == FirstCdCommand(CdPatternMatches(data), 1, knownDirectory) IN
    IF cd # NoCommand THEN cd
    ELSE IF PopdMatch(data)
    THEN [type |-> "cd", command |-> "popd", arg |-> <<>>, target |-> <<>>]
    ELSE NoCommand

\* The leftmost match of /(?:^|\n|\$ )\s*pwd\s*\n(\/[^\n]+)/
PwdMatch(data) ==
    LET PathOf(p) == SkipSpace(data, p + 3)
        P == {p \in Positions(data, W_pwd) :
                 /\ Anchored(data, p)
                 /\ PathOf(p) > p + 3
                 /\ data[PathOf(p) - 1] = "\n"
                 /\ PathOf(p) < Len(data)
                 /\ data[PathOf(p)] = "/"
                 /\ data[PathOf(p) + 1] # "\n"}
    IN  IF P = {} THEN NoMatch
        ELSE [found |-> TRUE,
              text |-> SubSeq(data, PathOf(MinOf(P)), RunEnd(data, PathOf(MinOf(P)), {"\n"}))]

\* /(?:^|\n)[^@\n]+@[^:]+:(\/[^\$\n]+)[\$#]/ tried from the line start s: the
\* index of the closing $ or #, or 0.
PromptEndFrom(data, s) ==
    LET ats == {i \in s..Len(data) : data[i] = "@"}
        k == IF ats = {} THEN 0 ELSE MinOf(ats)
        colons == {i \in (k + 1)..Len(data) : data[i] = ":"}
        c == IF colons = {} THEN 0 ELSE MinOf(colons)
        stop == RunEnd(data, c + 2, {"$", "\n"}) + 1
        hashes == {h \in (c + 3)..(stop - 1) : data[h] = "#"}
    IN  IF k <= s \/ (\E i \in s..(k - 1) : data[i] = "\n") THEN 0
        ELSE IF c <= k + 1 \/ c + 1 > Len(data) \/ data[c + 1] # "/" THEN 0
        ELSE IF stop <= Len(data) /\ data[stop] = "$" /\ stop >= c + 3 THEN stop
        ELSE IF hashes # {} THEN MaxOf(hashes)
        ELSE 0

\* The index of the `:` of the prompt tried from the line start s.
PromptColonFrom(data, s) ==
    LET k == MinOf({i \in s..Len(data) : data[i] = "@"}) IN
    MinOf({i \in (k + 1)..Len(data) : data[i] = ":"})

\* The leftmost match of the prompt pattern: its capture, or no match.
PromptMatch(data) ==
    LET starts == {1} \cup {i + 1 : i \in {j \in 1..Len(data) : data[j] = "\n"}}
        S == {s \in starts : s <= Len(data) /\ PromptEndFrom(data, s) # 0}
    IN  IF S = {} THEN NoMatch
        ELSE [found |-> TRUE,
              text |-> SubSeq(data, PromptColonFrom(data, MinOf(S)) + 1,
                              PromptEndFrom(data, MinOf(S)) - 1)]

\* parsePwdOutput(data): the command, or NoCommand for null.
parsePwdOutput(data, knownDirectory) ==
    LET pwd == PwdMatch(data)
        prompt == PromptMatch(data)
    IN  IF pwd.found
        THEN [type |-> "pwd", command |-> "pwd", arg |-> <<>>, target |-> TrimSpace(pwd.text)]
        ELSE IF prompt.found /\ TrimSpace(prompt.text) # knownDirectory
        THEN [type |-> "pwd", command |-> "prompt", arg |-> <<>>,
              target |-> TrimSpace(prompt.text)]
        ELSE NoCommand

\* The character classes of ansiRegex: [@-Z\\-_], [0-?], [ -/], [@-~]
\* (the grave accent, which is in [@-~], is not written here).
AnsiSingle ==
    {"@", "A", "B", "C", "D", "E", "F", "G", "H", "I", "J", "K", "L", "M",
     "N", "O", "P", "Q", "R", "S", "T", "U", "V", "W", "X", "Y", "Z", "\\",
     "]", "^", "_"}
AnsiParam ==
    {"0", "1", "2", "3", "4", "5", "6", "7", "8", "9", ":", ";", "<", "=",
     ">", "?"}
AnsiIntermediate ==
    {" ", "!", "\"", "#", "$", "%", "&", "'", "(", ")", "*", "+", ",", "-",
     ".", "/"}
AnsiFinal ==
    {"@", "A", "B", "C", "D", "E", "F", "G", "H", "I", "J", "K", "L", "M",
     "N", "O", "P", "Q", "R", "S", "T", "U", "V", "W", "X", "Y", "Z", "[",
     "\\", "]", "^", "_", "a", "b", "c", "d", "e", "f", "g", "h", "i", "j",
     "k", "l", "m", "n", "o", "p", "q", "r", "s", "t", "u", "v", "w", "x",
     "y", "z", "{", "|", "}", "~"}

\* The first index at or after i that holds no character of class.
RECURSIVE SkipClass(_, _, _)
SkipClass(data, i, class) ==
    IF i <= Len(data) /\ data[i] \in class THEN SkipClass(data, i + 1, class) ELSE i

\* The length of the match of ansiRegex at the ESC at index e, or 0.
AnsiMatchLen(data, e) ==
    IF e + 1 > Len(data) THEN 0
    ELSE IF data[e + 1] \in AnsiSingle THEN 2
    ELSE IF data[e + 1] = "[" THEN
        LET f == SkipClass(data, SkipClass(data, e + 2, AnsiParam), AnsiIntermediate) IN
        IF f <= Len(data) /\ data[f] \in AnsiFinal THEN f - e + 1 ELSE 0
    ELSE 0

\* stripAnsi(text) from index i on.
RECURSIVE StripAnsiFrom(_, _)
StripAnsiFrom(text, i) ==
    LET E == {e \in i..Len(text) : text[e] = "ESC"} IN
    IF E = {} THEN SubSeq(text, i, Len(text))
    ELSE LET e == MinOf(E)
             n == AnsiMatchLen(text, e)
         IN  IF n = 0
             THEN SubSeq(text, i, e) \o StripAnsiFrom(text, e + 1)
             ELSE SubSeq(text, i, e - 1) \o StripAnsiFrom(text, e + n)

stripAnsi(text) == StripAnsiFrom(text, 1)

\* buffer.slice(0, 1000) in place of slice(-1000).
KeepFirst(buf) ==
    IF Len(buf) > BufferLimit THEN SubSeq(buf, 1, BufferLimit) ELSE buf

\* if (buffer.length > 1000) buffer = buffer.slice(-1000)
KeepLast(buf) ==
    IF Len(buf) > BufferLimit THEN SubSeq(buf, Len(buf) - BufferLimit + 1, Len(buf)) ELSE buf

Chunk_cd_a == <<"c", "d", " ", "/", "a", "\n">>
Chunk_pwd_a == <<"p", "w", "d", "\n", "/", "a", "\n">>
Chunk_prompt_a == <<"u", "@", "h", ":", "/", "a", "$", " ">>
Chunk_prompt_b == <<"u", "@", "h", ":", "/", "b", "$", " ">>
Chunk_cd == <<"c", "d", " ">>
Chunk_cd_slash == <<"c", "d", " ", "/">>
Chunk_b == <<"b", "\n">>
Chunk_ansi == <<"ESC", "[", "0", "m">>
Chunk_filler == [i \in 1..FillerLen |-> "x"]

\* The chunks of terminal output a data event can carry.
Chunks ==
    {Chunk_cd_a, Chunk_pwd_a, Chunk_prompt_a, Chunk_prompt_b, Chunk_cd, Chunk_cd_slash,
     Chunk_b, Chunk_ansi, Chunk_filler}

InitParser ==
    /\ IdleParser
    /\ IdleId
    /\ IdlePure
    /\ IdleExt

\* The commands one parseData call finds in the cleaned buffer.
CommandsIn(cleanData, dir) ==
    SelectSeq(<<parseCdCommand(cleanData, dir), parsePwdOutput(cleanData, dir)>>,
              LAMBDA c : c # NoCommand)

\* parseData(data)
ParseData ==
    \E data \in Chunks :
        LET cleanData == stripAnsi(buffer \o data)
            commands == CommandsIn(cleanData, currentDirectory)
        IN  /\ nParsed < MaxChunks
            /\ nParsed' = nParsed + 1
            /\ returned' = commands
            /\ commandHistory' = commandHistory \o commands
            /\ currentDirectory' =
                  IF commands # <<>> /\ commands[Len(commands)].type = "pwd"
                  THEN commands[Len(commands)].target
                  ELSE currentDirectory
            /\ buffer' = KeepLast(buffer \o data)
            /\ received' = received \o data
            /\ UNCHANGED <<idVars, pureVars, extVars>>

\* setCurrentDirectory(dir)
SetCurrentDirectory ==
    \E dir \in {Dir_a} :
        /\ currentDirectory' = dir
        /\ returned' = <<>>
        /\ UNCHANGED <<buffer, commandHistory, received, nParsed, idVars, pureVars, extVars>>

\* clear()
Clear ==
    /\ buffer' = <<>>
    /\ commandHistory' = <<>>
    /\ currentDirectory' = <<>>
    /\ returned' = <<>>
    /\ received' = <<>>
    /\ UNCHANGED <<nParsed, idVars, pureVars, extVars>>

NextParser == ParseData \/ SetCurrentDirectory \/ Clear

SpecParser == InitParser /\ [][NextParser]_vars

IsSuffix(s, t) == Len(s) <= Len(t) /\ SubSeq(t, Len(t) - Len(s) + 1, Len(t)) = s

\* C19: after every parseData call the buffer holds at most 1000 characters
\* and is a suffix of all the chunks received since the last clear().
C19_BufferBounded ==
    /\ Len(buffer) <= 1000
    /\ IsSuffix(buffer, received)

\* More than 1000 characters were received and the buffer was cut to 1000.
C19_Witness ==
    /\ Len(received) > 1000
    /\ Len(buffer) = 1000
    /\ buffer # SubSeq(received, 1, 1000)

\* C20: a parseData call returns, and appends to the history, no pwd-type
\* command whose directory equals the directory known before the call.
C20_PwdOnlyWhenChanged ==
    [][ nParsed' # nParsed =>
          /\ \A i \in 1..Len(returned') :
                returned'[i].type = "pwd" => returned'[i].target # currentDirectory
          /\ \A i \in (Len(commandHistory) + 1)..Len(commandHistory') :
                commandHistory'[i].type = "pwd"
                    => commandHistory'[i].target # currentDirectory
      ]_vars

\* The argument text stands in the stream as a whole word: after whitespace or
\* an opening quote, and up to a character that ends an argument or the end of
\* the stream received so far.
CompleteArgument(stream, text) ==
    \E a \in Positions(stream, text) :
        /\ a > 1
        /\ IsSpace(stream[a - 1]) \/ IsQuote(stream[a - 1])
        /\ \/ a + Len(text) - 1 = Len(stream)
           \/ stream[a + Len(text)] \in ArgStops \cup {"\"", "'"}

\* C21: every Cd command emitted carries the complete argument of its line in
\* the stream: none carries a proper prefix that a later chunk extended.
C21_CompleteArgument ==
    \A i \in 1..Len(commandHistory) :
        commandHistory[i].command = "cd"
            => CompleteArgument(stripAnsi(received), commandHistory[i].arg)

HistoryBound == 4

IsPrefix(s, t) == Len(s) <= Len(t) /\ SubSeq(t, 1, Len(s)) = s

\* C22: the history is append-only (only clear() removes or changes an entry)
\* and its length never exceeds a fixed bound, however many chunks are parsed.
C22_HistoryBoundedAppendOnly ==
    /\ [](Len(commandHistory) <= HistoryBound)
    /\ [][commandHistory' = <<>> \/ IsPrefix(commandHistory, commandHistory')]_vars

\* The number of cd, pushd and popd words in the stream.
CdInvocations(stream) ==
    Cardinality(Positions(stream, W_cd)) + Cardinality(Positions(stream, W_pushd))
        + Cardinality(Positions(stream, W_popd))

\* C27: the Cd commands reported are at most one for each cd invocation that
\* appears in the terminal output.
C27_CdReportedOnce ==
    Len(SelectSeq(commandHistory, LAMBDA c : c.type = "cd"))
        <= CdInvocations(stripAnsi(received))

\* C29: for the same directory contents, stat outcomes and options, the tree
\* (fetchDirectoryContents) and the table (updateLsTableView) list the same
\* entry names in the same order.
C29_TreeEqualsTable ==
    pc = "listed" => output.tree = output.table


(***************************************************************************)
(* RemoteFileExplorer: getChildren suspended in fetchDirectoryContents     *)
(***************************************************************************)
MaxFetches == 1

\* The options updateCurrentPath is called with.
CacheOptions == {DefaultExtOptions, ExtParseLsOptions(Cmd_ls_la)}

InitCache ==
    /\ explorer \in {InitialExplorer(d) : d \in ExistingDirs}
    /\ fetches = <<>>
    /\ currentWorkingDirectory = <<>>
    /\ shouldShowFiles = FALSE
    /\ lsOptions = <<>>
    /\ tableView = <<>>
    /\ tableTasks = <<>>
    /\ terminalSent = <<>>
    /\ cdAwaitingLs = FALSE
    /\ lastHandled = <<>>
    /\ IdleId
    /\ IdlePure
    /\ IdleParser

\* refresh() ran while these getChildren calls were suspended.
Overtake(fs) == [i \in 1..Len(fs) |-> [fs[i] EXCEPT !.overtaken = TRUE]]

\* getChildren(element) up to the await of fetchDirectoryContents: the cache
\* key is computed from the fields as they are now. Without showFiles the
\* root gets its two header rows at once and the tree has no row to expand.
GetChildrenStart ==
    \E element \in {<<>>} \cup DirectoryRows(explorer) :
        LET targetPath == IF element # <<>> THEN element ELSE explorer.currentPath IN
        /\ targetPath # <<>>
        /\ explorer.showFiles
        /\ ~Cached(explorer, cacheKey(explorer, targetPath))
        /\ Len(fetches) < MaxFetches
        /\ fetches' = Append(fetches, [key |-> cacheKey(explorer, targetPath),
                                       overtaken |-> FALSE])
        /\ UNCHANGED <<explorer, currentWorkingDirectory, shouldShowFiles, lsOptions, tableView,
                       tableTasks, terminalSent, cdAwaitingLs, lastHandled,
                       idVars, pureVars, parserVars>>

\* fetchDirectoryContents resumes: the items are built from this.lsOptions and
\* this.currentPath as they are now and stored under the key computed before.
GetChildrenResume ==
    \E i \in 1..Len(fetches) :
        /\ explorer' = StoreItems(explorer, fetches[i].key,
                                  FetchedItems(explorer, fetches[i].key.path),
                                  fetches[i].overtaken)
        /\ fetches' = RemoveAt(fetches, i)
        /\ UNCHANGED <<currentWorkingDirectory, shouldShowFiles, lsOptions, tableView,
                       tableTasks, terminalSent, cdAwaitingLs, lastHandled,
                       idVars, pureVars, parserVars>>

\* updateCurrentPath(newPath, showFiles, options)
UpdateCurrentPath ==
    \E newPath \in ExistingDirs, showFiles \in BOOLEAN, options \in CacheOptions :
        /\ explorer' = updateCurrentPath(explorer, newPath, showFiles, options)
        /\ fetches' = Overtake(fetches)
        /\ UNCHANGED <<currentWorkingDirectory, shouldShowFiles, lsOptions, tableView,
                       tableTasks, terminalSent, cdAwaitingLs, lastHandled,
                       idVars, pureVars, parserVars>>

\* revealDirectory(dirPath)
RevealDirectory ==
    \E dirPath \in ExistingDirs :
        /\ explorer' = revealDirectory(explorer, dirPath)
        /\ fetches' = Overtake(fetches)
        /\ UNCHANGED <<currentWorkingDirectory, shouldShowFiles, lsOptions, tableView,
                       tableTasks, terminalSent, cdAwaitingLs, lastHandled,
                       idVars, pureVars, parserVars>>

\* refresh()
Refresh ==
    /\ explorer' = refresh(explorer)
    /\ fetches' = Overtake(fetches)
    /\ UNCHANGED <<currentWorkingDirectory, shouldShowFiles, lsOptions, tableView,
                   tableTasks, terminalSent, cdAwaitingLs, lastHandled,
                   idVars, pureVars, parserVars>>

NextCache ==
    \/ GetChildrenStart
    \/ GetChildrenResume
    \/ UpdateCurrentPath
    \/ RevealDirectory
    \/ Refresh

SpecCache == InitCache /\ [][NextCache]_vars

\* C26: every entry of fileCache was computed after the most recent
\* refresh() and from the path and ls options of its key, so getChildren
\* never returns items that disagree with the key they are stored under.
C26_CacheAgreesWithKey ==
    \A e \in explorer.fileCache :
        /\ ~e.overtaken
        /\ e.items.path = e.key.path
        /\ e.items.lsOptions = e.key.lsOptions

\* C23: after the handler met a successful cd whose target is unresolved or
\* does not exist, currentWorkingDirectory is the terminal's cwd when that
\* is available and is unchanged when it is not; the tracked directory is
\* never a directory that does not exist.
C23_UnresolvedCdReadsTerminal ==
    [][ /\ lastHandled'.kind = "cdUnresolved" =>
              currentWorkingDirectory' =
                  IF lastHandled'.termCwd # <<>> THEN lastHandled'.termCwd
                  ELSE currentWorkingDirectory
        /\ existsSync(currentWorkingDirectory')
      ]_vars

\* The handler met `cd -` or a cd to a missing directory and took the
\* terminal's cwd, which differs from the directory a resolved cd arrives at.
C23_Witness ==
    /\ lastHandled.kind = "cdUnresolved"
    /\ lastHandled.termCwd = Dir_root
    /\ currentWorkingDirectory = Dir_root
    /\ cdAwaitingLs

\* C24: a cd or ls line (not pwd) handled with a non-zero exit code leaves
\* currentWorkingDirectory, shouldShowFiles, lsOptions and the explorer's
\* currentPath, showFiles and lsOptions unchanged, and the table is neither
\* cleared nor updated (no update is started either).
C24_FailedCommandChangesNothing ==
    [][ lastHandled'.kind = "failed" =>
          /\ UNCHANGED <<currentWorkingDirectory, shouldShowFiles, lsOptions>>
          /\ explorer'.currentPath = explorer.currentPath
          /\ explorer'.showFiles = explorer.showFiles
          /\ explorer'.lsOptions = explorer.lsOptions
          /\ UNCHANGED <<tableView, tableTasks>>
      ]_vars

\* A failed cd or ls was handled while files were listed in the table.
C24_Witness ==
    /\ lastHandled.kind = "failed"
    /\ shouldShowFiles
    /\ tableView.kind = "table"
    /\ lsOptions # DefaultExtOptions

\* C25: whenever a suspended updateLsTableView resumes and calls updateTable,
\* shouldShowFiles is true (no cd was handled since), the directory shown is
\* the directory whose entries were read, and the options shown are those of
\* the ls that started the update.
C25_NoOvertakenListing ==
    [][ (Len(tableTasks') < Len(tableTasks) /\ tableView' # tableView) =>
          /\ shouldShowFiles
          /\ tableView'.directory = tableView'.readDir
          /\ \E i \in 1..Len(tableTasks) :
                /\ tableTasks' = RemoveAt(tableTasks, i)
                /\ tableView'.options = tableTasks[i].options
      ]_vars

\* C28: the tree explorer mirrors the tracked state.
C28_ExplorerMirrorsState ==
    /\ explorer.currentPath = currentWorkingDirectory
    /\ explorer.showFiles = shouldShowFiles
    /\ explorer.lsOptions = lsOptions

\* After `ls -la` in /a the explorer shows the files of /a with the parsed
\* options.
C28_Witness ==
    /\ currentWorkingDirectory = Dir_a
    /\ explorer.currentPath = Dir_a
    /\ explorer.showFiles
    /\ explorer.lsOptions = ExtParseLsOptions(Cmd_ls_la)
    /\ lsOptions # DefaultExtOptions

====
